---- MODULE Spec2Model ----
(***************************************************************************)
(* The in-memory cache of arcanebot/twilight (cache/in-memory/src/lib.rs) *)
(* as a state machine.  The variable `cache` is the InMemoryCacheRef      *)
(* struct: one field per table, each DashMap a function whose DOMAIN is    *)
(* the set of keys present.  Every cache_* / delete_* method is an        *)
(* operator from a cache value to a cache value, so that a method which    *)
(* calls other methods is the composition of their operators, and one      *)
(* action applies one whole call.                                          *)
(***************************************************************************)
EXTENDS Integers, FiniteSets, Sequences, TLC

\* ------------------------------------------------------------- bounds
MaxGuild == 2
MaxUser == 2
MaxChannel == 2
MaxKey == 2
MaxSnapshot == 1
MaxCalls == 2
MaxProc == 3

\* Option::None of an id or of an Option<User>; ids start at 1.
None == 0

Guilds == 1..MaxGuild
Users == 1..MaxUser
Channels == 1..MaxChannel
Keys == 1..MaxKey
\* The threads that may be inside a call
Procs == 1..MaxProc

\* ------------------------------------------------------------- DashMap
EmptyMap == <<>>

Has(map, k) == k \in DOMAIN map

Insert(map, k, v) == [x \in DOMAIN map \cup {k} |-> IF x = k THEN v ELSE map[x]]

Remove(map, k) == [x \in DOMAIN map \ {k} |-> map[x]]

RemoveAll(map, ks) == [x \in DOMAIN map \ ks |-> map[x]]

\* map.entry(k).or_default().insert(e) on a map of sets
EntryInsert(map, k, e) == Insert(map, k, (IF Has(map, k) THEN map[k] ELSE {}) \cup {e})

\* map.get_mut(k).map(|set| set.remove(e)): nothing when k has no entry
GetMutRemove(map, k, e) == IF Has(map, k) THEN Insert(map, k, map[k] \ {e}) ELSE map

\* get_mut(k).map(|s| { s.remove(e); s.is_empty() }).unwrap_or_default(),
\* then map.remove(k) when the flag is set
RemoveAndPrune(map, k, e) == IF ~Has(map, k) THEN map ELSE IF map[k] \ {e} = {} THEN Remove(map, k) ELSE Insert(map, k, map[k] \ {e})

\* ------------------------------------------------------------- values
\* Each value keeps its key, the fields the cache reads, and one other field
\* that stands for the rest of the payload (the part equality looks at).
UserValues == [id : Users, bot : BOOLEAN]

\* Option<User>::None and Option<CurrentUser>::None
NoUser == [id |-> None, bot |-> FALSE]

Roles == [id : Keys, hoist : BOOLEAN]

\* A GuildChannel as received: its guild_id is an Option the cache overwrites.
GuildChannels == [id : Channels, guild_id : Guilds \cup {None}, nsfw : BOOLEAN]

StageInstances == [id : Keys, guild_id : Guilds, discoverable_disabled : BOOLEAN]

GuildIntegrations == [id : Keys, enabled : BOOLEAN]

Emojis == [id : Keys, available : BOOLEAN, user : UserValues \cup {NoUser}]

Members == [user : UserValues, deaf : BOOLEAN]

CachedPresences == [user_id : Users, status : BOOLEAN]

Groups == [id : Channels, owner_id : Users]

PrivateChannels == [id : Channels, recipient : Users]

\* A VoiceState as the cache reads it: guild_id and channel_id are Options,
\* mute stands for the fields that play no part in the indexing.
VoiceStates == [guild_id : Guilds \cup {None}, user_id : Users, channel_id : Channels \cup {None}, mute : BOOLEAN]

\* ResourceType flags consulted by cache_guild
ResourceTypes == {"CHANNEL", "EMOJI", "MEMBER", "PRESENCE", "ROLE", "VOICE_STATE", "STAGE_INSTANCE"}

\* A guild snapshot: the collections cache_guild hands on, and one scalar field.
GuildOf(id, channels, emojis, members, presences, roles, voice_states, stage_instances, unavailable) ==
    [id |-> id, channels |-> channels, emojis |-> emojis, members |-> members, presences |-> presences, roles |-> roles, voice_states |-> voice_states, stage_instances |-> stage_instances, unavailable |-> unavailable]

\* Sequences over S of length at most n
SeqUpTo(S, n) == UNION {[1..k -> S] : k \in 0..n}

\* ------------------------------------------------------------- state
VARIABLES cache, prev, last, calls, limit, seen, run, locks

vars == <<cache, prev, last, calls, limit, seen, run, locks>>

\* InMemoryCacheRef::default(): every table empty, no current user.
NewCache == [
    config |-> ResourceTypes,
    channels_guild |-> EmptyMap,
    channels_private |-> EmptyMap,
    current_user |-> NoUser,
    emojis |-> EmptyMap,
    groups |-> EmptyMap,
    guilds |-> EmptyMap,
    guild_channels |-> EmptyMap,
    guild_emojis |-> EmptyMap,
    guild_integrations |-> EmptyMap,
    guild_members |-> EmptyMap,
    guild_presences |-> EmptyMap,
    guild_roles |-> EmptyMap,
    guild_stage_instances |-> EmptyMap,
    integrations |-> EmptyMap,
    members |-> EmptyMap,
    messages |-> EmptyMap,
    presences |-> EmptyMap,
    roles |-> EmptyMap,
    stage_instances |-> EmptyMap,
    unavailable_guilds |-> {},
    users |-> EmptyMap,
    voice_state_channels |-> EmptyMap,
    voice_state_guilds |-> EmptyMap,
    voice_states |-> EmptyMap]

\* ------------------------------------------------------------- guild items
\* GuildItem { data, guild_id }
GuildItem(data, guild_id) == [data |-> data, guild_id |-> guild_id]

\* An occupied entry whose data equals the value is left alone, whatever guild
\* the call names; any other entry is (over)written with the call's guild.
upsert_guild_item(map, guild_id, key, value) ==
    IF Has(map, key) /\ map[key].data = value THEN map ELSE Insert(map, key, GuildItem(value, guild_id))

\* cache_guild_channel that stores the channel with the guild id it came with
cache_guild_channel_as_given(c, guild_id, channel) ==
    [c EXCEPT !.guild_channels = EntryInsert(@, guild_id, channel.id),
              !.channels_guild = upsert_guild_item(@, guild_id, channel.id, channel)]

cache_guild_channel(c, guild_id, channel) ==
    LET injected == [channel EXCEPT !.guild_id = guild_id]
    IN [c EXCEPT !.guild_channels = EntryInsert(@, guild_id, channel.id),
                 !.channels_guild = upsert_guild_item(@, guild_id, channel.id, injected)]

cache_role(c, guild_id, role) ==
    [c EXCEPT !.guild_roles = EntryInsert(@, guild_id, role.id),
              !.roles = upsert_guild_item(@, guild_id, role.id, role)]

cache_stage_instance(c, guild_id, stage_instance) ==
    [c EXCEPT !.guild_stage_instances = EntryInsert(@, guild_id, stage_instance.id),
              !.stage_instances = upsert_guild_item(@, guild_id, stage_instance.id, stage_instance)]

cache_integration(c, guild_id, integration) ==
    [c EXCEPT !.guild_integrations = EntryInsert(@, guild_id, integration.id),
              !.integrations = upsert_guild_item(@, guild_id, <<guild_id, integration.id>>, integration)]

delete_guild_channel(c, channel_id) ==
    IF Has(c.channels_guild, channel_id)
    THEN [c EXCEPT !.channels_guild = Remove(@, channel_id),
                   !.guild_channels = GetMutRemove(@, c.channels_guild[channel_id].guild_id, channel_id)]
    ELSE c

delete_integration(c, guild_id, integration_id) ==
    IF Has(c.integrations, <<guild_id, integration_id>>)
    THEN [c EXCEPT !.integrations = Remove(@, <<guild_id, integration_id>>),
                   !.guild_integrations = GetMutRemove(@, guild_id, integration_id)]
    ELSE c

\* delete_role that finds the guild by scanning the sets for the key (first
\* hit) instead of reading the removed entry
delete_role_scanning(c, role_id) ==
    LET holders == {g \in DOMAIN c.guild_roles : role_id \in c.guild_roles[g]}
    IN [c EXCEPT !.roles = Remove(@, role_id),
                 !.guild_roles = IF holders = {} THEN @ ELSE GetMutRemove(@, CHOOSE g \in holders : \A h \in holders : g <= h, role_id)]

delete_role(c, role_id) ==
    IF Has(c.roles, role_id)
    THEN [c EXCEPT !.roles = Remove(@, role_id),
                   !.guild_roles = GetMutRemove(@, c.roles[role_id].guild_id, role_id)]
    ELSE c

delete_stage_instance(c, stage_id) ==
    IF Has(c.stage_instances, stage_id)
    THEN [c EXCEPT !.stage_instances = Remove(@, stage_id),
                   !.guild_stage_instances = GetMutRemove(@, c.stage_instances[stage_id].guild_id, stage_id)]
    ELSE c

\* ------------------------------------------------------------- users
\* users: UserId -> (User, BTreeSet<GuildId>)
UserEntry(user, guilds) == [user |-> user, guilds |-> guilds]

\* cache_user that stores a new user even without a guild
cache_user_unguarded(c, user, guild_id) ==
    IF Has(c.users, user.id) /\ c.users[user.id].user = user
    THEN IF guild_id # None
         THEN [c EXCEPT !.users = Insert(@, user.id, UserEntry(user, c.users[user.id].guilds \cup {guild_id}))]
         ELSE c
    ELSE [c EXCEPT !.users = Insert(@, user.id, UserEntry(user, {guild_id} \ {None}))]

\* cache_user that refreshes the data of a cached user even without a guild
cache_user_refreshing(c, user, guild_id) ==
    IF Has(c.users, user.id) /\ guild_id = None
    THEN [c EXCEPT !.users = Insert(@, user.id, UserEntry(user, c.users[user.id].guilds))]
    ELSE IF Has(c.users, user.id) /\ c.users[user.id].user = user
         THEN [c EXCEPT !.users = Insert(@, user.id, UserEntry(user, c.users[user.id].guilds \cup {guild_id}))]
         ELSE IF guild_id # None
              THEN [c EXCEPT !.users = Insert(@, user.id, UserEntry(user, {guild_id}))]
              ELSE c

\* cache_user that starts a new reference set also for an equal cached user
cache_user_resetting(c, user, guild_id) ==
    IF guild_id # None
    THEN [c EXCEPT !.users = Insert(@, user.id, UserEntry(user, {guild_id}))]
    ELSE c

cache_user(c, user, guild_id) ==
    IF Has(c.users, user.id) /\ c.users[user.id].user = user
    THEN IF guild_id # None
         THEN [c EXCEPT !.users = Insert(@, user.id, UserEntry(user, c.users[user.id].guilds \cup {guild_id}))]
         ELSE c
    ELSE IF guild_id # None
         THEN [c EXCEPT !.users = Insert(@, user.id, UserEntry(user, {guild_id}))]
         ELSE c

\* Release of one guild's reference to a user (member removal): the guild
\* leaves the set, and the record goes with the last guild.
remove_guild_reference(c, user_id, guild_id) ==
    IF ~Has(c.users, user_id) THEN c
    ELSE IF c.users[user_id].guilds \ {guild_id} = {}
         THEN [c EXCEPT !.users = Remove(@, user_id)]
         ELSE [c EXCEPT !.users = Insert(@, user_id, UserEntry(c.users[user_id].user, c.users[user_id].guilds \ {guild_id}))]

\* ------------------------------------------------------------- emojis
\* CachedEmoji: the uploader is kept as a user id
CachedEmoji(emoji) == [id |-> emoji.id, available |-> emoji.available, user_id |-> emoji.user.id]

\* CachedEmoji == Emoji: field by field over the cached projection
emoji_eq(cached, emoji) == cached = CachedEmoji(emoji)

cache_emoji(c, guild_id, emoji) ==
    IF Has(c.emojis, emoji.id) /\ emoji_eq(c.emojis[emoji.id].data, emoji) THEN c
    ELSE LET c1 == IF emoji.user # NoUser THEN cache_user(c, emoji.user, guild_id) ELSE c
         IN [c1 EXCEPT !.emojis = Insert(@, emoji.id, GuildItem(CachedEmoji(emoji), guild_id)),
                       !.guild_emojis = EntryInsert(@, guild_id, emoji.id)]

RECURSIVE cache_emoji_each(_, _, _)
\* for emoji in emojis { self.cache_emoji(guild_id, emoji) }
cache_emoji_each(c, guild_id, emojis) ==
    IF emojis = <<>> THEN c ELSE cache_emoji_each(cache_emoji(c, guild_id, Head(emojis)), guild_id, Tail(emojis))

\* The keys of an incoming collection
Ids(items) == {items[i].id : i \in DOMAIN items}

cache_emojis(c, guild_id, emojis) ==
    LET removal_filter == IF Has(c.guild_emojis, guild_id) THEN c.guild_emojis[guild_id] \ Ids(emojis) ELSE {}
        pruned == IF Has(c.guild_emojis, guild_id)
                  THEN [c EXCEPT !.guild_emojis = Insert(@, guild_id, c.guild_emojis[guild_id] \ removal_filter),
                                 !.emojis = RemoveAll(@, removal_filter)]
                  ELSE c
    IN cache_emoji_each(pruned, guild_id, emojis)

\* ------------------------------------------------------------- members
CachedMember(guild_id, member) == [guild_id |-> guild_id, user_id |-> member.user.id, deaf |-> member.deaf]

\* CachedMember == Member: field by field over the cached projection
member_eq(cached, member) == cached.user_id = member.user.id /\ cached.deaf = member.deaf

cache_member(c, guild_id, member) ==
    IF Has(c.members, <<guild_id, member.user.id>>) /\ member_eq(c.members[<<guild_id, member.user.id>>], member) THEN c
    ELSE LET c1 == cache_user(c, member.user, guild_id)
         IN [c1 EXCEPT !.members = Insert(@, <<guild_id, member.user.id>>, CachedMember(guild_id, member)),
                       !.guild_members = EntryInsert(@, guild_id, member.user.id)]

\* A PartialMember as received: it names no user
PartialMembers == [deaf : BOOLEAN]

\* CachedMember == &PartialMember: field by field over what both carry
partial_member_eq(cached, member) == cached.deaf = member.deaf

cache_borrowed_partial_member(c, guild_id, member, user_id) ==
    IF Has(c.members, <<guild_id, user_id>>) /\ partial_member_eq(c.members[<<guild_id, user_id>>], member) THEN c
    ELSE [c EXCEPT !.guild_members = EntryInsert(@, guild_id, user_id),
                   !.members = Insert(@, <<guild_id, user_id>>, [guild_id |-> guild_id, user_id |-> user_id, deaf |-> member.deaf])]

RECURSIVE cache_members(_, _, _)
cache_members(c, guild_id, members) ==
    IF members = <<>> THEN c ELSE cache_members(cache_member(c, guild_id, Head(members)), guild_id, Tail(members))

\* ------------------------------------------------------------- bulk upserts
RECURSIVE cache_guild_channels(_, _, _)
cache_guild_channels(c, guild_id, guild_channels) ==
    IF guild_channels = <<>> THEN c ELSE cache_guild_channels(cache_guild_channel(c, guild_id, Head(guild_channels)), guild_id, Tail(guild_channels))

RECURSIVE cache_roles(_, _, _)
cache_roles(c, guild_id, roles) ==
    IF roles = <<>> THEN c ELSE cache_roles(cache_role(c, guild_id, Head(roles)), guild_id, Tail(roles))

RECURSIVE cache_stage_instances(_, _, _)
cache_stage_instances(c, guild_id, stage_instances) ==
    IF stage_instances = <<>> THEN c ELSE cache_stage_instances(cache_stage_instance(c, guild_id, Head(stage_instances)), guild_id, Tail(stage_instances))

\* Only the presence itself is stored; guild_presences is not touched.
cache_presence(c, guild_id, presence) ==
    [c EXCEPT !.presences = Insert(@, <<guild_id, presence.user_id>>, presence)]

RECURSIVE cache_presences(_, _, _)
cache_presences(c, guild_id, presences) ==
    IF presences = <<>> THEN c ELSE cache_presences(cache_presence(c, guild_id, Head(presences)), guild_id, Tail(presences))

\* ------------------------------------------------------------- scalars
cache_current_user(c, current_user) == [c EXCEPT !.current_user = current_user]

\* Option<CurrentUser> as a set: empty for None
current_user(c) == IF c.current_user = NoUser THEN {} ELSE {c.current_user}

cache_group(c, group) == [c EXCEPT !.groups = Insert(@, group.id, group)]

cache_private_channel(c, private_channel) == [c EXCEPT !.channels_private = Insert(@, private_channel.id, private_channel)]

delete_group(c, channel_id) == [c EXCEPT !.groups = Remove(@, channel_id)]

\* unavailable_guild that also drops the guild's membership sets
unavailable_guild_cascading(c, guild_id) ==
    [c EXCEPT !.unavailable_guilds = @ \cup {guild_id},
              !.guilds = Remove(@, guild_id),
              !.guild_channels = Remove(@, guild_id),
              !.guild_emojis = Remove(@, guild_id),
              !.guild_members = Remove(@, guild_id),
              !.guild_roles = Remove(@, guild_id),
              !.voice_state_guilds = Remove(@, guild_id)]

unavailable_guild(c, guild_id) ==
    [c EXCEPT !.unavailable_guilds = @ \cup {guild_id},
              !.guilds = Remove(@, guild_id)]

\* ------------------------------------------------------------- voice
\* voice_cleanup without its removal: the old channel keeps the pair
voice_cleanup_skipped(c, guild_id, user_id) == c

\* lines 932-950: cleanup keyed off the previously cached record
voice_cleanup(c, guild_id, user_id) ==
    IF Has(c.voice_states, <<guild_id, user_id>>) /\ c.voice_states[<<guild_id, user_id>>].channel_id # None
    THEN [c EXCEPT !.voice_state_channels = RemoveAndPrune(@, c.voice_states[<<guild_id, user_id>>].channel_id, <<guild_id, user_id>>)]
    ELSE c

\* voice_leave that takes the user out of the guild's set but never prunes it
voice_leave_unpruned(c, guild_id, user_id) ==
    [c EXCEPT !.voice_state_guilds = GetMutRemove(@, guild_id, user_id),
              !.voice_states = Remove(@, <<guild_id, user_id>>)]

\* lines 952-974: no channel id, the user has left
voice_leave(c, guild_id, user_id) ==
    [c EXCEPT !.voice_state_guilds = RemoveAndPrune(@, guild_id, user_id),
              !.voice_states = Remove(@, <<guild_id, user_id>>)]

\* voice_join that forgets the guild's set
voice_join_no_guild(c, guild_id, user_id, voice_state) ==
    [c EXCEPT !.voice_states = Insert(@, <<guild_id, user_id>>, voice_state),
              !.voice_state_channels = EntryInsert(@, voice_state.channel_id, <<guild_id, user_id>>)]

\* lines 976-992: record, guild set, channel set
voice_join(c, guild_id, user_id, voice_state) ==
    [c EXCEPT !.voice_states = Insert(@, <<guild_id, user_id>>, voice_state),
              !.voice_state_guilds = EntryInsert(@, guild_id, user_id),
              !.voice_state_channels = EntryInsert(@, voice_state.channel_id, <<guild_id, user_id>>)]

\* cache_voice_state without the guild id check: the record is filed under
\* the missing guild id
cache_voice_state_unchecked(c, voice_state) ==
    LET cleaned == voice_cleanup(c, voice_state.guild_id, voice_state.user_id)
    IN IF voice_state.channel_id = None
       THEN voice_leave(cleaned, voice_state.guild_id, voice_state.user_id)
       ELSE voice_join(cleaned, voice_state.guild_id, voice_state.user_id, voice_state)

cache_voice_state(c, voice_state) ==
    IF voice_state.guild_id = None THEN c
    ELSE LET cleaned == voice_cleanup(c, voice_state.guild_id, voice_state.user_id)
         IN IF voice_state.channel_id = None
            THEN voice_leave(cleaned, voice_state.guild_id, voice_state.user_id)
            ELSE voice_join(cleaned, voice_state.guild_id, voice_state.user_id, voice_state)

RECURSIVE cache_voice_states(_, _)
cache_voice_states(c, voice_states) ==
    IF voice_states = <<>> THEN c ELSE cache_voice_states(cache_voice_state(c, Head(voice_states)), Tail(voice_states))

\* ------------------------------------------------------------- guild
\* wants that takes every category to be enabled
wants_everything(c, resource_type) == TRUE

wants(c, resource_type) == resource_type \in c.config

\* CachedGuild: the snapshot without its collections
CachedGuild(guild) == [id |-> guild.id, unavailable |-> guild.unavailable]

\* Each enabled category first gets a fresh, empty set for the guild
\* (replacing the one it had), then the snapshot's items are cached one by one.
seed_channels(c, guild) ==
    IF wants(c, "CHANNEL") THEN cache_guild_channels([c EXCEPT !.guild_channels = Insert(@, guild.id, {})], guild.id, guild.channels) ELSE c

seed_emojis(c, guild) ==
    IF wants(c, "EMOJI") THEN cache_emojis([c EXCEPT !.guild_emojis = Insert(@, guild.id, {})], guild.id, guild.emojis) ELSE c

seed_members(c, guild) ==
    IF wants(c, "MEMBER") THEN cache_members([c EXCEPT !.guild_members = Insert(@, guild.id, {})], guild.id, guild.members) ELSE c

seed_presences(c, guild) ==
    IF wants(c, "PRESENCE") THEN cache_presences([c EXCEPT !.guild_presences = Insert(@, guild.id, {})], guild.id, guild.presences) ELSE c

seed_roles(c, guild) ==
    IF wants(c, "ROLE") THEN cache_roles([c EXCEPT !.guild_roles = Insert(@, guild.id, {})], guild.id, guild.roles) ELSE c

seed_voice_states(c, guild) ==
    IF wants(c, "VOICE_STATE") THEN cache_voice_states([c EXCEPT !.voice_state_guilds = Insert(@, guild.id, {})], guild.voice_states) ELSE c

seed_stage_instances(c, guild) ==
    IF wants(c, "STAGE_INSTANCE") THEN cache_stage_instances([c EXCEPT !.guild_stage_instances = Insert(@, guild.id, {})], guild.id, guild.stage_instances) ELSE c

\* cache_guild up to the write of the guild itself: the categories in turn
seed_guild(c, guild) ==
    seed_stage_instances(seed_voice_states(seed_roles(seed_presences(seed_members(seed_emojis(seed_channels(c, guild), guild), guild), guild), guild), guild), guild)

cache_guild(c, guild) ==
    LET seeded == seed_guild(c, guild)
    IN [seeded EXCEPT !.unavailable_guilds = @ \ {guild.id},
                      !.guilds = Insert(@, guild.id, CachedGuild(guild))]

\* ------------------------------------------------------------- clear
\* The tables clear() empties: every field but config and stage_instances.
clear(c) ==
    [c EXCEPT !.channels_guild = EmptyMap,
              !.channels_private = EmptyMap,
              !.current_user = NoUser,
              !.emojis = EmptyMap,
              !.groups = EmptyMap,
              !.guilds = EmptyMap,
              !.guild_channels = EmptyMap,
              !.guild_emojis = EmptyMap,
              !.guild_integrations = EmptyMap,
              !.guild_members = EmptyMap,
              !.guild_presences = EmptyMap,
              !.guild_roles = EmptyMap,
              !.guild_stage_instances = EmptyMap,
              !.integrations = EmptyMap,
              !.members = EmptyMap,
              !.messages = EmptyMap,
              !.presences = EmptyMap,
              !.roles = EmptyMap,
              !.unavailable_guilds = {},
              !.users = EmptyMap,
              !.voice_state_channels = EmptyMap,
              !.voice_state_guilds = EmptyMap,
              !.voice_states = EmptyMap]

\* ------------------------------------------------------------- lookups
\* An Option is the set of what it holds: {} is None, {x} is Some(x).
\* map.get(&k).map(|r| r.clone())
Get(map, k) == IF Has(map, k) THEN {map[k]} ELSE {}

\* map.get(&k).map(|r| r.data.clone())
GetData(map, k) == IF Has(map, k) THEN {map[k].data} ELSE {}

guild_channel(c, channel_id) == GetData(c.channels_guild, channel_id)

guild_channels(c, guild_id) == Get(c.guild_channels, guild_id)

guild_roles(c, guild_id) == Get(c.guild_roles, guild_id)

guild_stage_instances(c, guild_id) == Get(c.guild_stage_instances, guild_id)

role(c, role_id) == GetData(c.roles, role_id)

stage_instance(c, stage_id) == GetData(c.stage_instances, stage_id)

guild_presences(c, guild_id) == Get(c.guild_presences, guild_id)

presence(c, guild_id, user_id) == Get(c.presences, <<guild_id, user_id>>)

\* voice_channel_states that answers an empty list for an unknown channel
voice_channel_states_or_empty(c, channel_id) ==
    LET user_ids == IF Has(c.voice_state_channels, channel_id) THEN c.voice_state_channels[channel_id] ELSE {}
        found == {key \in user_ids : Has(c.voice_states, key)}
    IN {[r \in {c.voice_states[key] : key \in found} |-> Cardinality({key \in found : c.voice_states[key] = r})]}

\* lines 463-472: the Vec is a bag of records, one clone per key of the
\* channel's set that voice_states still holds
voice_channel_states(c, channel_id) ==
    IF ~Has(c.voice_state_channels, channel_id) THEN {}
    ELSE LET user_ids == c.voice_state_channels[channel_id]
             found == {key \in user_ids : Has(c.voice_states, key)}
         IN {[r \in {c.voice_states[key] : key \in found} |-> Cardinality({key \in found : c.voice_states[key] = r})]}

\* ------------------------------------------------------------- calls
\* A call of the cache's API: the method's name and its arguments.
CallOf(op, args) == [op |-> op, args |-> args]

\* The method a call names, applied to the cache.
Apply(c, call) ==
    CASE call.op = "cache_guild" -> cache_guild(c, call.args)
      [] call.op = "cache_guild_channel" -> cache_guild_channel(c, call.args[1], call.args[2])
      [] call.op = "cache_role" -> cache_role(c, call.args[1], call.args[2])
      [] call.op = "cache_roles" -> cache_roles(c, call.args[1], call.args[2])
      [] call.op = "cache_stage_instance" -> cache_stage_instance(c, call.args[1], call.args[2])
      [] call.op = "cache_integration" -> cache_integration(c, call.args[1], call.args[2])
      [] call.op = "cache_emoji" -> cache_emoji(c, call.args[1], call.args[2])
      [] call.op = "cache_emojis" -> cache_emojis(c, call.args[1], call.args[2])
      [] call.op = "cache_member" -> cache_member(c, call.args[1], call.args[2])
      [] call.op = "cache_borrowed_partial_member" -> cache_borrowed_partial_member(c, call.args[1], call.args[2], call.args[3])
      [] call.op = "cache_user" -> cache_user(c, call.args[1], call.args[2])
      [] call.op = "cache_voice_state" -> cache_voice_state(c, call.args)
      [] call.op = "cache_presence" -> cache_presence(c, call.args[1], call.args[2])
      [] call.op = "cache_current_user" -> cache_current_user(c, call.args)
      [] call.op = "cache_group" -> cache_group(c, call.args)
      [] call.op = "cache_private_channel" -> cache_private_channel(c, call.args)
      [] call.op = "remove_guild_reference" -> remove_guild_reference(c, call.args[1], call.args[2])
      [] call.op = "delete_group" -> delete_group(c, call.args)
      [] call.op = "delete_guild_channel" -> delete_guild_channel(c, call.args)
      [] call.op = "delete_role" -> delete_role(c, call.args)
      [] call.op = "delete_stage_instance" -> delete_stage_instance(c, call.args)
      [] call.op = "delete_integration" -> delete_integration(c, call.args[1], call.args[2])
      [] call.op = "unavailable_guild" -> unavailable_guild(c, call.args)
      [] call.op = "clear" -> clear(c)

\* No call has been singled out yet.
NoCall == CallOf("none", <<>>)

\* What the build decides about the per-shard locks of a DashMap: whether a
\* read guard is granted while a writer is queued ("readers") or waits behind
\* it ("writers"), and whether the keys in use hash to one shard or to a
\* shard each.
OwnShards == [admission |-> "readers", shared |-> FALSE]

\* A thread that is in no call: its position, the voice state it was handed,
\* and the two locals of cache_voice_state (the channel of the record it
\* found cached, and the flag of its last is_empty()); for
\* voice_channel_states, the channel asked for (in `old`) and the keys its
\* iteration has still to visit.
NotRunning == [pc |-> "idle", vs |-> [guild_id |-> None, user_id |-> None, channel_id |-> None, mute |-> FALSE], old |-> None, flag |-> FALSE, keys |-> {}]

Init ==
    /\ cache = NewCache
    /\ prev = NewCache
    /\ last = NoCall
    /\ calls = 0
    /\ limit = 0
    /\ seen = [u \in Users |-> {}]
    /\ run = [p \in Procs |-> NotRunning]
    /\ locks = OwnShards

\* The same start, for behaviours of at most MaxCalls calls
InitLimited ==
    /\ cache = NewCache
    /\ prev = NewCache
    /\ last = NoCall
    /\ calls = 0
    /\ limit = MaxCalls
    /\ seen = [u \in Users |-> {}]
    /\ run = [p \in Procs |-> NotRunning]
    /\ locks = OwnShards

\* The same start, for behaviours one call longer
InitDeep ==
    /\ cache = NewCache
    /\ prev = NewCache
    /\ last = NoCall
    /\ calls = 0
    /\ limit = MaxCalls + 1
    /\ seen = [u \in Users |-> {}]
    /\ run = [p \in Procs |-> NotRunning]
    /\ locks = OwnShards

\* A new cache built with any configuration of resource types
InitConfig ==
    /\ \E config \in SUBSET ResourceTypes : cache = [NewCache EXCEPT !.config = config]
    /\ prev = cache
    /\ last = NoCall
    /\ calls = 0
    /\ limit = 0
    /\ seen = [u \in Users |-> {}]
    /\ run = [p \in Procs |-> NotRunning]
    /\ locks = OwnShards

\* The same start, for behaviours of at most one completed call
InitShallow ==
    /\ cache = NewCache
    /\ prev = NewCache
    /\ last = NoCall
    /\ calls = 0
    /\ limit = 1
    /\ seen = [u \in Users |-> {}]
    /\ run = [p \in Procs |-> NotRunning]
    /\ locks = OwnShards

\* At most one completed call, then concurrent calls under either admission
\* policy of the shard locks and either spread of the keys over the shards
InitLocks ==
    /\ cache = NewCache
    /\ prev = NewCache
    /\ last = NoCall
    /\ calls = 0
    /\ limit = 1
    /\ seen = [u \in Users |-> {}]
    /\ run = [p \in Procs |-> NotRunning]
    /\ locks \in [admission : {"readers", "writers"}, shared : BOOLEAN]

\* One completed call, made while no thread is inside a call.  A behaviour is a series of calls; it may single out one
\* of them, recording the call in `last` and the cache it found in `prev`, and
\* then ends, so that what a call did can be read off one state.
Step(call) ==
    /\ last = NoCall
    /\ limit = 0 \/ calls < limit
    /\ calls' = IF limit = 0 THEN calls ELSE calls + 1
    /\ limit' = limit
    /\ cache' = Apply(cache, call)
    /\ run' = run
    /\ locks' = locks
    /\ \/ prev' = prev /\ last' = last
       \/ prev' = cache /\ last' = call

\* ------------------------------------------------------------- inputs
\* Guild snapshots with at most one non-empty collection, of at most MaxSnapshot items
EmptyGuild(id, unavailable) == GuildOf(id, <<>>, <<>>, <<>>, <<>>, <<>>, <<>>, <<>>, unavailable)

VoiceSnapshots == {[EmptyGuild(g, FALSE) EXCEPT !.voice_states = x] : g \in Guilds, x \in SeqUpTo(VoiceStates, MaxSnapshot)}

ChannelSnapshots == {[EmptyGuild(g, FALSE) EXCEPT !.channels = x] : g \in Guilds, x \in SeqUpTo(GuildChannels, MaxSnapshot)}

\* Guild snapshots with items in any number of their collections: item 1 of
\* each category, emojis with and without uploader, voice states with and
\* without guild id
FullSnapshots ==
    {GuildOf(g, ch, em, me, pr, ro, vs, si, FALSE) :
        g \in Guilds,
        ch \in SeqUpTo({x \in GuildChannels : x.id = 1 /\ x.guild_id = None /\ ~x.nsfw}, MaxSnapshot),
        em \in SeqUpTo({x \in Emojis : x.id = 1 /\ x.available /\ x.user.id \in {None, 1} /\ ~x.user.bot}, MaxSnapshot),
        me \in SeqUpTo({x \in Members : x.user.id = 1 /\ ~x.user.bot /\ ~x.deaf}, MaxSnapshot),
        pr \in SeqUpTo({x \in CachedPresences : x.user_id = 1 /\ ~x.status}, MaxSnapshot),
        ro \in SeqUpTo({x \in Roles : x.id = 1 /\ ~x.hoist}, MaxSnapshot),
        vs \in SeqUpTo({x \in VoiceStates : x.guild_id \in {None, 1} /\ x.user_id = 1 /\ x.channel_id = 1 /\ ~x.mute}, MaxSnapshot),
        si \in SeqUpTo({x \in StageInstances : x.id = 1 /\ x.guild_id = 1 /\ ~x.discoverable_disabled}, MaxSnapshot)}

\* Emojis that carry no uploader
AnonEmojis == {e \in Emojis : e.user = NoUser}

EmojiSnapshots == {[EmptyGuild(g, FALSE) EXCEPT !.emojis = x] : g \in Guilds, x \in SeqUpTo(AnonEmojis, MaxSnapshot)}

GuildSnapshots ==
    VoiceSnapshots \cup EmojiSnapshots
    \cup {[EmptyGuild(g, u) EXCEPT !.channels = x] : g \in Guilds, u \in BOOLEAN, x \in SeqUpTo(GuildChannels, MaxSnapshot)}
    \cup {[EmptyGuild(g, FALSE) EXCEPT !.emojis = x] : g \in Guilds, x \in SeqUpTo(Emojis, MaxSnapshot)}
    \cup {[EmptyGuild(g, FALSE) EXCEPT !.members = x] : g \in Guilds, x \in SeqUpTo(Members, MaxSnapshot)}
    \cup {[EmptyGuild(g, FALSE) EXCEPT !.presences = x] : g \in Guilds, x \in SeqUpTo(CachedPresences, MaxSnapshot)}
    \cup {[EmptyGuild(g, FALSE) EXCEPT !.roles = x] : g \in Guilds, x \in SeqUpTo(Roles, MaxSnapshot)}
    \cup {[EmptyGuild(g, FALSE) EXCEPT !.stage_instances = x] : g \in Guilds, x \in SeqUpTo(StageInstances, MaxSnapshot)}

\* ------------------------------------------------------------- actions
CacheGuild(snapshots) == \E guild \in snapshots : Step(CallOf("cache_guild", guild)) /\ UNCHANGED seen

CacheGuildChannel == \E g \in Guilds, channel \in GuildChannels : Step(CallOf("cache_guild_channel", <<g, channel>>)) /\ UNCHANGED seen

CacheRole == \E g \in Guilds, item \in Roles : Step(CallOf("cache_role", <<g, item>>)) /\ UNCHANGED seen

CacheRoles == \E g \in Guilds, incoming \in SeqUpTo(Roles, MaxKey) : Step(CallOf("cache_roles", <<g, incoming>>)) /\ UNCHANGED seen

CacheStageInstance == \E g \in Guilds, si \in StageInstances : Step(CallOf("cache_stage_instance", <<g, si>>)) /\ UNCHANGED seen

CacheIntegration == \E g \in Guilds, integration \in GuildIntegrations : Step(CallOf("cache_integration", <<g, integration>>)) /\ UNCHANGED seen

CacheEmoji(emojis) == \E g \in Guilds, emoji \in emojis : Step(CallOf("cache_emoji", <<g, emoji>>)) /\ UNCHANGED seen

CacheEmojis(emojis) == \E g \in Guilds, incoming \in SeqUpTo(emojis, MaxKey) : Step(CallOf("cache_emojis", <<g, incoming>>)) /\ UNCHANGED seen

CacheMember == \E g \in Guilds, member \in Members : Step(CallOf("cache_member", <<g, member>>)) /\ UNCHANGED seen

CacheUser == \E user \in UserValues, g \in Guilds \cup {None} : Step(CallOf("cache_user", <<user, g>>)) /\ UNCHANGED seen

RemoveGuildReference == \E u \in Users, g \in Guilds : Step(CallOf("remove_guild_reference", <<u, g>>)) /\ UNCHANGED seen

CacheVoiceState == \E vs \in VoiceStates : Step(CallOf("cache_voice_state", vs)) /\ UNCHANGED seen

CachePresence == \E g \in Guilds, item \in CachedPresences : Step(CallOf("cache_presence", <<g, item>>)) /\ UNCHANGED seen

CacheCurrentUser == \E user \in UserValues : Step(CallOf("cache_current_user", user)) /\ UNCHANGED seen

CacheGroup == \E group \in Groups : Step(CallOf("cache_group", group)) /\ UNCHANGED seen

CachePrivateChannel == \E pc \in PrivateChannels : Step(CallOf("cache_private_channel", pc)) /\ UNCHANGED seen

DeleteGroup == \E id \in Channels : Step(CallOf("delete_group", id)) /\ UNCHANGED seen

DeleteGuildChannel == \E id \in Channels : Step(CallOf("delete_guild_channel", id)) /\ UNCHANGED seen

DeleteRole == \E id \in Keys : Step(CallOf("delete_role", id)) /\ UNCHANGED seen

DeleteStageInstance == \E id \in Keys : Step(CallOf("delete_stage_instance", id)) /\ UNCHANGED seen

DeleteIntegration == \E g \in Guilds, id \in Keys : Step(CallOf("delete_integration", <<g, id>>)) /\ UNCHANGED seen

UnavailableGuild == \E g \in Guilds : Step(CallOf("unavailable_guild", g)) /\ UNCHANGED seen

Clear == Step(CallOf("clear", <<>>)) /\ UNCHANGED seen

\* cache_guild on a cache that holds nothing yet
SeedGuild ==
    /\ cache = [NewCache EXCEPT !.config = cache.config]
    /\ CacheGuild(FullSnapshots)

\* ------------------------------------------------------------- cache_voice_state, step by step
\* cache_voice_state as the series of DashMap operations it makes, each one
\* atomic (a DashMap operation holds its shard lock from start to end).
\* run[p].pc is where thread p stands between two of them.

\* The voice_states key of a record
PairKey(voice_state) == <<voice_state.guild_id, voice_state.user_id>>

\* Thread p moves on: its position and locals change, the rest of `run` stays
Goto(p, pc, old, flag) == run' = [run EXCEPT ![p] = [pc |-> pc, vs |-> run[p].vs, old |-> old, flag |-> flag, keys |-> run[p].keys]]

\* The (guild, user) pair thread p's call is about
RunPair(p) == <<run[p].vs.guild_id, run[p].vs.user_id>>

\* After the cleanup: the leave branch or the insert
AfterCleanup(p) == IF run[p].vs.channel_id = None THEN "guild_unmap" ELSE "insert"

\* What a step leaves alone besides the cache and `run`
StepFrame == UNCHANGED <<prev, last, calls, limit, seen, locks>>

\* Two keys of one map lie in the same shard
SameShard(k1, k2) == k1 = k2 \/ locks.shared

\* Another thread stands inside the `if let Some(voice_state) =
\* voice_states.get(..)` block for a key of the same shard: it holds the
\* shard's read guard, and a write to that shard has to wait for it
ReadHeld(p) == \E q \in Procs \ {p} : run[q].pc \in {"unmap", "prune"} /\ SameShard(RunPair(q), RunPair(p))

\* Another thread iterates the connected set of the channel inside
\* voice_channel_states: it holds the read guard of the channel's shard, and
\* a write to that channel's entry has to wait for it
ChannelReadHeld(p, channel_id) == \E q \in Procs \ {p} : run[q].pc = "states_iter" /\ SameShard(run[q].old, channel_id)

\* A thread other than p whose next operation writes voice_states[key] and
\* has to wait: it is queued on the shard's lock
WriterQueued(p, key) == \E q \in Procs \ {p} : run[q].pc \in {"insert", "remove"} /\ SameShard(RunPair(q), key) /\ ReadHeld(q)

\* The channel whose voice_state_channels entry thread q writes next, None
\* when its next operation writes none
WritesChannel(q) ==
    CASE run[q].pc = "unmap" -> run[q].old
      [] run[q].pc = "prune" /\ run[q].flag -> run[q].old
      [] run[q].pc = "channel_insert" -> run[q].vs.channel_id
      [] OTHER -> None

\* A thread other than p is queued for a write of the channel's entry
ChannelWriterQueued(p, channel_id) == \E q \in Procs \ {p} : WritesChannel(q) # None /\ SameShard(WritesChannel(q), channel_id) /\ ChannelReadHeld(q, WritesChannel(q))

\* A read guard is granted at once when readers are admitted first; when
\* writers are, it waits behind a queued writer
MayRead(queued) == locks.admission = "readers" \/ ~queued

\* The call is entered by the only thread at work, and is the singled-out
\* call of the behaviour.  A record without a guild id returns at once.
VoiceBegin(p) ==
    \E vs \in VoiceStates :
        /\ last = NoCall
        /\ \A q \in Procs : run[q].pc = "idle"
        /\ prev' = cache
        /\ last' = CallOf("cache_voice_state", vs)
        /\ run' = [run EXCEPT ![p] = [pc |-> IF vs.guild_id = None THEN "done" ELSE "lookup", vs |-> vs, old |-> None, flag |-> FALSE, keys |-> {}]]
        /\ UNCHANGED <<cache, calls, limit, seen, locks>>

\* A lookup that never finds the pair: the call would go on without cleanup
VoiceLookupSkipping(p) ==
    /\ run[p].pc = "lookup"
    /\ Goto(p, AfterCleanup(p), None, FALSE)
    /\ UNCHANGED cache
    /\ StepFrame

\* voice_states.get(&(guild_id, user_id)) and the channel of what it found
VoiceLookup(p) ==
    /\ run[p].pc = "lookup"
    /\ MayRead(WriterQueued(p, RunPair(p)))
    /\ IF Has(cache.voice_states, RunPair(p)) /\ cache.voice_states[RunPair(p)].channel_id # None
       THEN Goto(p, "unmap", cache.voice_states[RunPair(p)].channel_id, FALSE)
       ELSE Goto(p, AfterCleanup(p), None, FALSE)
    /\ UNCHANGED cache
    /\ StepFrame

\* voice_state_channels.get_mut(&channel_id).map(remove, is_empty).unwrap_or_default()
VoiceUnmap(p) ==
    /\ run[p].pc = "unmap"
    /\ ~ChannelReadHeld(p, run[p].old)
    /\ cache' = [cache EXCEPT !.voice_state_channels = GetMutRemove(@, run[p].old, RunPair(p))]
    /\ Goto(p, "prune", run[p].old, Has(cache.voice_state_channels, run[p].old) /\ cache.voice_state_channels[run[p].old] \ {RunPair(p)} = {})
    /\ StepFrame

\* if remove_channel_mapping { voice_state_channels.remove(&channel_id) }
VoicePrune(p) ==
    /\ run[p].pc = "prune"
    /\ run[p].flag => ~ChannelReadHeld(p, run[p].old)
    /\ cache' = IF run[p].flag THEN [cache EXCEPT !.voice_state_channels = Remove(@, run[p].old)] ELSE cache
    /\ Goto(p, AfterCleanup(p), run[p].old, FALSE)
    /\ StepFrame

\* voice_state_guilds.get_mut(&guild_id).map(remove, is_empty).unwrap_or_default()
VoiceGuildUnmap(p) ==
    /\ run[p].pc = "guild_unmap"
    /\ cache' = [cache EXCEPT !.voice_state_guilds = GetMutRemove(@, run[p].vs.guild_id, run[p].vs.user_id)]
    /\ Goto(p, "guild_prune", run[p].old, Has(cache.voice_state_guilds, run[p].vs.guild_id) /\ cache.voice_state_guilds[run[p].vs.guild_id] \ {run[p].vs.user_id} = {})
    /\ StepFrame

\* if remove_guild { voice_state_guilds.remove(&guild_id) }
VoiceGuildPrune(p) ==
    /\ run[p].pc = "guild_prune"
    /\ cache' = IF run[p].flag THEN [cache EXCEPT !.voice_state_guilds = Remove(@, run[p].vs.guild_id)] ELSE cache
    /\ Goto(p, "remove", run[p].old, FALSE)
    /\ StepFrame

\* voice_states.remove(&(guild_id, user_id)); return
VoiceRemove(p) ==
    /\ run[p].pc = "remove"
    /\ ~ReadHeld(p)
    /\ cache' = [cache EXCEPT !.voice_states = Remove(@, RunPair(p))]
    /\ Goto(p, "done", run[p].old, FALSE)
    /\ StepFrame

\* voice_states.insert((guild_id, user_id), voice_state)
VoiceInsert(p) ==
    /\ run[p].pc = "insert"
    /\ ~ReadHeld(p)
    /\ cache' = [cache EXCEPT !.voice_states = Insert(@, RunPair(p), run[p].vs)]
    /\ Goto(p, "guild_insert", run[p].old, FALSE)
    /\ StepFrame

\* voice_state_guilds.entry(guild_id).or_default().insert(user_id)
VoiceGuildInsert(p) ==
    /\ run[p].pc = "guild_insert"
    /\ cache' = [cache EXCEPT !.voice_state_guilds = EntryInsert(@, run[p].vs.guild_id, run[p].vs.user_id)]
    /\ Goto(p, "channel_insert", run[p].old, FALSE)
    /\ StepFrame

\* voice_state_channels.entry(channel_id).or_default().insert((guild_id, user_id))
VoiceChannelInsert(p) ==
    /\ run[p].pc = "channel_insert"
    /\ ~ChannelReadHeld(p, run[p].vs.channel_id)
    /\ cache' = [cache EXCEPT !.voice_state_channels = EntryInsert(@, run[p].vs.channel_id, RunPair(p))]
    /\ Goto(p, "done", run[p].old, FALSE)
    /\ StepFrame

\* voice_channel_states, step by step.
\* let user_ids = self.0.voice_state_channels.get(&channel_id)?: the read
\* guard is held until the function returns
StatesGet(p) ==
    /\ run[p].pc = "states_get"
    /\ MayRead(ChannelWriterQueued(p, run[p].old))
    /\ IF Has(cache.voice_state_channels, run[p].old)
       THEN run' = [run EXCEPT ![p].pc = "states_iter", ![p].keys = cache.voice_state_channels[run[p].old]]
       ELSE run' = [run EXCEPT ![p].pc = "done"]
    /\ UNCHANGED cache
    /\ StepFrame

\* filter_map(|key| self.0.voice_states.get(&key).map(|r| r.clone())): one
\* key of the set, under the read guard of the key's shard
StatesIter(p) ==
    /\ run[p].pc = "states_iter"
    /\ \E key \in run[p].keys :
        /\ MayRead(WriterQueued(p, key))
        /\ run' = [run EXCEPT ![p].keys = @ \ {key}]
    /\ UNCHANGED cache
    /\ StepFrame

\* collect() and return: the read guard on the channel's set is dropped
StatesReturn(p) ==
    /\ run[p].pc = "states_iter"
    /\ run[p].keys = {}
    /\ run' = [run EXCEPT ![p].pc = "done"]
    /\ UNCHANGED cache
    /\ StepFrame

\* Three threads enter at once: two cache_voice_state calls for guild 1 and
\* one voice_channel_states lookup for channel 1; together they are the
\* singled-out call.
BeginConcurrent ==
    \E vs1 \in VoiceStates, vs2 \in VoiceStates, channel_id \in {1} :
        /\ last = NoCall
        /\ \A q \in Procs : run[q].pc = "idle"
        /\ vs1.guild_id = 1 /\ vs2.guild_id = 1
        /\ ~vs1.mute /\ ~vs2.mute
        /\ prev' = cache
        /\ last' = CallOf("concurrent", <<vs1, vs2, channel_id>>)
        /\ run' = [p \in Procs |->
                    CASE p = 1 -> [NotRunning EXCEPT !.pc = "lookup", !.vs = vs1]
                      [] p = 2 -> [NotRunning EXCEPT !.pc = "lookup", !.vs = vs2]
                      [] p = 3 -> [NotRunning EXCEPT !.pc = "states_get", !.old = channel_id]
                      [] OTHER -> NotRunning]
        /\ UNCHANGED <<cache, calls, limit, seen, locks>>

\* Two threads enter cache_voice_state at once, for the same (guild, user)
\* pair and two different channels; the pair of calls is the singled-out call.
VoiceBeginBoth ==
    \E vs1 \in VoiceStates, vs2 \in VoiceStates :
        /\ last = NoCall
        /\ \A q \in Procs : run[q].pc = "idle"
        /\ vs1.guild_id # None
        /\ PairKey(vs1) = PairKey(vs2)
        /\ vs1.channel_id # None /\ vs2.channel_id # None
        /\ vs1.channel_id # vs2.channel_id
        /\ prev' = cache
        /\ last' = CallOf("cache_voice_state_twice", <<vs1, vs2>>)
        /\ run' = [p \in Procs |-> IF p > 2 THEN NotRunning ELSE [pc |-> "lookup", vs |-> IF p = 1 THEN vs1 ELSE vs2, old |-> None, flag |-> FALSE, keys |-> {}]]
        /\ UNCHANGED <<cache, calls, limit, seen, locks>>

\* ------------------------------------------------------------- the guild-scoped upserts, step by step
\* Each upsert as the series of DashMap operations it makes.  The call is the
\* singled-out call of the behaviour: its arguments are read from `last`.

\* The upserts that insert into the guild's set and then call upsert_guild_item
IndexFirst == {"cache_guild_channel", "cache_role", "cache_stage_instance", "cache_integration"}

\* Where a call starts
FirstPc(op) ==
    CASE op \in IndexFirst -> "index"
      [] op = "cache_emoji" -> "emoji_compare"
      [] op = "cache_member" -> "member_compare"
      [] op = "cache_borrowed_partial_member" -> "partial_compare"

\* The upsert calls taken step by step
UpsertCalls ==
    {CallOf("cache_guild_channel", <<g, x>>) : g \in Guilds, x \in GuildChannels}
    \cup {CallOf("cache_role", <<g, x>>) : g \in Guilds, x \in Roles}
    \cup {CallOf("cache_stage_instance", <<g, x>>) : g \in Guilds, x \in StageInstances}
    \cup {CallOf("cache_integration", <<g, x>>) : g \in Guilds, x \in GuildIntegrations}
    \cup {CallOf("cache_emoji", <<g, x>>) : g \in Guilds, x \in Emojis}
    \cup {CallOf("cache_member", <<g, x>>) : g \in Guilds, x \in Members}
    \cup {CallOf("cache_borrowed_partial_member", <<g, x, u>>) : g \in Guilds, x \in PartialMembers, u \in Users}

\* Thread p moves to another position of its upsert
At(p, pc) == run' = [run EXCEPT ![p].pc = pc]

UpsertBegin(p) ==
    \E call \in UpsertCalls :
        /\ last = NoCall
        /\ \A q \in Procs : run[q].pc = "idle"
        /\ prev' = cache
        /\ last' = call
        /\ At(p, FirstPc(call.op))
        /\ UNCHANGED <<cache, calls, limit, seen, locks>>

\* guild_<items>.entry(guild_id).or_default().insert(id)
ItemIndex(p) ==
    /\ run[p].pc = "index"
    /\ cache' = CASE last.op = "cache_guild_channel" -> [cache EXCEPT !.guild_channels = EntryInsert(@, last.args[1], last.args[2].id)]
                  [] last.op = "cache_role" -> [cache EXCEPT !.guild_roles = EntryInsert(@, last.args[1], last.args[2].id)]
                  [] last.op = "cache_stage_instance" -> [cache EXCEPT !.guild_stage_instances = EntryInsert(@, last.args[1], last.args[2].id)]
                  [] last.op = "cache_integration" -> [cache EXCEPT !.guild_integrations = EntryInsert(@, last.args[1], last.args[2].id)]
    /\ At(p, "primary")
    /\ StepFrame

\* upsert_guild_item(&self.0.<items>, guild_id, id, item)
ItemUpsert(p) ==
    /\ run[p].pc = "primary"
    /\ cache' = CASE last.op = "cache_guild_channel" -> [cache EXCEPT !.channels_guild = upsert_guild_item(@, last.args[1], last.args[2].id, [last.args[2] EXCEPT !.guild_id = last.args[1]])]
                  [] last.op = "cache_role" -> [cache EXCEPT !.roles = upsert_guild_item(@, last.args[1], last.args[2].id, last.args[2])]
                  [] last.op = "cache_stage_instance" -> [cache EXCEPT !.stage_instances = upsert_guild_item(@, last.args[1], last.args[2].id, last.args[2])]
                  [] last.op = "cache_integration" -> [cache EXCEPT !.integrations = upsert_guild_item(@, last.args[1], <<last.args[1], last.args[2].id>>, last.args[2])]
    /\ At(p, "done")
    /\ StepFrame

\* The emoji thread p's cache_emoji is about: the argument of the call, or
\* inside cache_emojis the item of the thread's collection at its index `old`
EmojiItem(p) == IF last.op = "cache_emoji" THEN last.args[2] ELSE last.args[p + 1][run[p].old]

\* cache_emoji returns: the call is over, or the loop of cache_emojis goes on
\* to the next item of the collection
EmojiReturn(p) ==
    IF last.op = "cache_emoji" \/ run[p].old = Len(last.args[p + 1])
    THEN run' = [run EXCEPT ![p].pc = "done"]
    ELSE run' = [run EXCEPT ![p].pc = "emoji_compare", ![p].old = @ + 1]

\* Another thread is inside the `if let Some(mut guild_emojis) =
\* guild_emojis.get_mut(..)` block of cache_emojis: it holds the write guard
\* of the guild's set
EmojisGuardHeld(p) == \E q \in Procs \ {p} : run[q].pc = "emojis_remove"

\* match self.0.emojis.get(&emoji.id) { Some(cached) if cached.data == emoji => return, .. }
EmojiCompare(p) ==
    /\ run[p].pc = "emoji_compare"
    /\ IF Has(cache.emojis, EmojiItem(p).id) /\ emoji_eq(cache.emojis[EmojiItem(p).id].data, EmojiItem(p))
       THEN EmojiReturn(p)
       ELSE At(p, "emoji_user")
    /\ UNCHANGED cache
    /\ StepFrame

\* if let Some(user) = emoji.user { self.cache_user(Cow::Owned(user), Some(guild_id)) }
EmojiUser(p) ==
    /\ run[p].pc = "emoji_user"
    /\ cache' = IF EmojiItem(p).user # NoUser THEN cache_user(cache, EmojiItem(p).user, last.args[1]) ELSE cache
    /\ At(p, "emoji_insert")
    /\ StepFrame

\* self.0.emojis.insert(cached.id, GuildItem { data: cached, guild_id })
EmojiInsert(p) ==
    /\ run[p].pc = "emoji_insert"
    /\ cache' = [cache EXCEPT !.emojis = Insert(@, EmojiItem(p).id, GuildItem(CachedEmoji(EmojiItem(p)), last.args[1]))]
    /\ At(p, "emoji_index")
    /\ StepFrame

\* self.0.guild_emojis.entry(guild_id).or_default().insert(emoji.id)
EmojiIndex(p) ==
    /\ run[p].pc = "emoji_index"
    /\ ~EmojisGuardHeld(p)
    /\ cache' = [cache EXCEPT !.guild_emojis = EntryInsert(@, last.args[1], EmojiItem(p).id)]
    /\ EmojiReturn(p)
    /\ StepFrame

\* if let Some(m) = self.0.members.get(&id) { if *m == member { return } }
MemberCompare(p) ==
    /\ run[p].pc = "member_compare"
    /\ IF Has(cache.members, <<last.args[1], last.args[2].user.id>>) /\ member_eq(cache.members[<<last.args[1], last.args[2].user.id>>], last.args[2])
       THEN At(p, "done")
       ELSE At(p, "member_user")
    /\ UNCHANGED cache
    /\ StepFrame

\* self.cache_user(Cow::Owned(member.user), Some(guild_id))
MemberUser(p) ==
    /\ run[p].pc = "member_user"
    /\ cache' = cache_user(cache, last.args[2].user, last.args[1])
    /\ At(p, "member_insert")
    /\ StepFrame

\* self.0.members.insert(id, cached)
MemberInsert(p) ==
    /\ run[p].pc = "member_insert"
    /\ cache' = [cache EXCEPT !.members = Insert(@, <<last.args[1], last.args[2].user.id>>, CachedMember(last.args[1], last.args[2]))]
    /\ At(p, "member_index")
    /\ StepFrame

\* self.0.guild_members.entry(guild_id).or_default().insert(member_id)
MemberIndex(p) ==
    /\ run[p].pc = "member_index"
    /\ cache' = [cache EXCEPT !.guild_members = EntryInsert(@, last.args[1], last.args[2].user.id)]
    /\ At(p, "done")
    /\ StepFrame

\* cache_borrowed_partial_member: if *m == member { return }
PartialCompare(p) ==
    /\ run[p].pc = "partial_compare"
    /\ IF Has(cache.members, <<last.args[1], last.args[3]>>) /\ partial_member_eq(cache.members[<<last.args[1], last.args[3]>>], last.args[2])
       THEN At(p, "done")
       ELSE At(p, "partial_index")
    /\ UNCHANGED cache
    /\ StepFrame

\* self.0.guild_members.entry(guild_id).or_default().insert(user_id)
PartialIndex(p) ==
    /\ run[p].pc = "partial_index"
    /\ cache' = [cache EXCEPT !.guild_members = EntryInsert(@, last.args[1], last.args[3])]
    /\ At(p, "partial_insert")
    /\ StepFrame

\* self.0.members.insert(id, cached)
PartialInsert(p) ==
    /\ run[p].pc = "partial_insert"
    /\ cache' = [cache EXCEPT !.members = Insert(@, <<last.args[1], last.args[3]>>, [guild_id |-> last.args[1], user_id |-> last.args[3], deaf |-> last.args[2].deaf])]
    /\ At(p, "done")
    /\ StepFrame

\* ------------------------------------------------------------- cache_emojis, step by step
\* Threads 1 and 2 call cache_emojis for the guild last.args[1] with the
\* collections last.args[2] and last.args[3].

\* Emojis as the concurrent refreshes present them
RefreshEmojis == {e \in AnonEmojis : e.available}

\* Where cache_emojis goes after the removal block
EmojisLoop(p) == IF last.args[p + 1] = <<>> THEN "done" ELSE "emoji_compare"

EmojisBegin ==
    \E g \in Guilds, emojis1, emojis2 \in SeqUpTo(RefreshEmojis, MaxKey) :
        /\ last = NoCall
        /\ \A q \in Procs : run[q].pc = "idle"
        /\ prev' = cache
        /\ last' = CallOf("cache_emojis_twice", <<g, emojis1, emojis2>>)
        /\ run' = [p \in Procs |-> [NotRunning EXCEPT !.pc = IF p \in {1, 2} THEN "emojis_filter" ELSE "idle", !.old = 1]]
        /\ UNCHANGED <<cache, calls, limit, seen, locks>>

\* if let Some(mut guild_emojis) = guild_emojis.get_mut(&guild_id): the
\* removal_filter is computed and taken out of the set; the guard stays held
EmojisFilter(p) ==
    /\ run[p].pc = "emojis_filter"
    /\ ~EmojisGuardHeld(p)
    /\ IF Has(cache.guild_emojis, last.args[1])
       THEN /\ cache' = [cache EXCEPT !.guild_emojis = Insert(@, last.args[1], cache.guild_emojis[last.args[1]] \cap Ids(last.args[p + 1]))]
            /\ run' = [run EXCEPT ![p].pc = "emojis_remove", ![p].keys = cache.guild_emojis[last.args[1]] \ Ids(last.args[p + 1])]
       ELSE /\ cache' = cache
            /\ run' = [run EXCEPT ![p].pc = EmojisLoop(p)]
    /\ StepFrame

\* for to_remove in &removal_filter { self.0.emojis.remove(to_remove) }: one key
EmojisRemove(p) ==
    /\ run[p].pc = "emojis_remove"
    /\ \E key \in run[p].keys :
        /\ cache' = [cache EXCEPT !.emojis = Remove(@, key)]
        /\ run' = [run EXCEPT ![p].keys = @ \ {key}]
    /\ StepFrame

\* the end of the block: the guard on the guild's set is dropped
EmojisRelease(p) ==
    /\ run[p].pc = "emojis_remove"
    /\ run[p].keys = {}
    /\ run' = [run EXCEPT ![p].pc = EmojisLoop(p)]
    /\ UNCHANGED cache
    /\ StepFrame

\* ------------------------------------------------------------- delete racing with upsert
\* delete_role, delete_guild_channel and delete_stage_instance step by step,
\* run by thread 2 for the key that thread 1 upserts (the call in `last`).

\* The upserts that have a delete by key alone
Deletable == {"cache_guild_channel", "cache_role", "cache_stage_instance"}

UpsertDeleteBegin ==
    \E call \in {c \in UpsertCalls : c.op \in Deletable} :
        /\ last = NoCall
        /\ \A q \in Procs : run[q].pc = "idle"
        /\ prev' = cache
        /\ last' = call
        /\ run' = [p \in Procs |-> [NotRunning EXCEPT !.pc = CASE p = 1 -> "index" [] p = 2 -> "delete_remove" [] OTHER -> "idle"]]
        /\ UNCHANGED <<cache, calls, limit, seen, locks>>

\* if let Some((_, item)) = self.0.<items>.remove(&id): the owner found is
\* kept in the thread's local `old`
DeleteRemove(p) ==
    /\ run[p].pc = "delete_remove"
    /\ CASE last.op = "cache_guild_channel" ->
              IF Has(cache.channels_guild, last.args[2].id)
              THEN cache' = [cache EXCEPT !.channels_guild = Remove(@, last.args[2].id)] /\ Goto(p, "delete_unindex", cache.channels_guild[last.args[2].id].guild_id, FALSE)
              ELSE cache' = cache /\ Goto(p, "done", None, FALSE)
         [] last.op = "cache_role" ->
              IF Has(cache.roles, last.args[2].id)
              THEN cache' = [cache EXCEPT !.roles = Remove(@, last.args[2].id)] /\ Goto(p, "delete_unindex", cache.roles[last.args[2].id].guild_id, FALSE)
              ELSE cache' = cache /\ Goto(p, "done", None, FALSE)
         [] last.op = "cache_stage_instance" ->
              IF Has(cache.stage_instances, last.args[2].id)
              THEN cache' = [cache EXCEPT !.stage_instances = Remove(@, last.args[2].id)] /\ Goto(p, "delete_unindex", cache.stage_instances[last.args[2].id].guild_id, FALSE)
              ELSE cache' = cache /\ Goto(p, "done", None, FALSE)
    /\ StepFrame

\* if let Some(mut ids) = self.0.guild_<items>.get_mut(&guild_id) { ids.remove(&id) }
DeleteUnindex(p) ==
    /\ run[p].pc = "delete_unindex"
    /\ cache' = CASE last.op = "cache_guild_channel" -> [cache EXCEPT !.guild_channels = GetMutRemove(@, run[p].old, last.args[2].id)]
                  [] last.op = "cache_role" -> [cache EXCEPT !.guild_roles = GetMutRemove(@, run[p].old, last.args[2].id)]
                  [] last.op = "cache_stage_instance" -> [cache EXCEPT !.guild_stage_instances = GetMutRemove(@, run[p].old, last.args[2].id)]
    /\ Goto(p, "done", run[p].old, FALSE)
    /\ StepFrame

\* ------------------------------------------------------------- cache_user, step by step
\* Threads 1 and 2 call cache_user with the same user value, last.args[1],
\* and the guilds last.args[2] and last.args[3].

\* The guild thread p passes
UserGuild(p) == last.args[p + 1]

UserBegin ==
    \E user \in UserValues, g1, g2 \in Guilds :
        /\ last = NoCall
        /\ \A q \in Procs : run[q].pc = "idle"
        /\ prev' = cache
        /\ last' = CallOf("cache_user_twice", <<user, g1, g2>>)
        /\ run' = [p \in Procs |-> [NotRunning EXCEPT !.pc = IF p \in {1, 2} THEN "user_get_mut" ELSE "idle"]]
        /\ UNCHANGED <<cache, calls, limit, seen, locks>>

\* match self.0.users.get_mut(&user.id) { Some(mut u) if u.0 == *user => {
\* u.1.insert(guild_id); return } .. }: one access under the entry's guard
UserGetMut(p) ==
    /\ run[p].pc = "user_get_mut"
    /\ IF Has(cache.users, last.args[1].id) /\ cache.users[last.args[1].id].user = last.args[1]
       THEN /\ cache' = [cache EXCEPT !.users = Insert(@, last.args[1].id, UserEntry(last.args[1], cache.users[last.args[1].id].guilds \cup {UserGuild(p)}))]
            /\ Goto(p, "done", None, FALSE)
       ELSE /\ cache' = cache
            /\ Goto(p, "user_insert", None, FALSE)
    /\ StepFrame

\* self.0.users.insert(user.id, (user, guild_id_set)) with a new set of the one guild
UserInsert(p) ==
    /\ run[p].pc = "user_insert"
    /\ cache' = [cache EXCEPT !.users = Insert(@, last.args[1].id, UserEntry(last.args[1], {UserGuild(p)}))]
    /\ Goto(p, "done", None, FALSE)
    /\ StepFrame

\* ------------------------------------------------------------- cache_guild racing with unavailable_guild
\* Thread 1 calls cache_guild(last.args), thread 2 unavailable_guild of the
\* same guild id.

GuildRaceBegin ==
    \E guild \in ChannelSnapshots :
        /\ last = NoCall
        /\ \A q \in Procs : run[q].pc = "idle"
        /\ prev' = cache
        /\ last' = CallOf("guild_race", guild)
        /\ run' = [p \in Procs |-> [NotRunning EXCEPT !.pc = CASE p = 1 -> "guild_seed" [] p = 2 -> "unavailable_insert" [] OTHER -> "idle"]]
        /\ UNCHANGED <<cache, calls, limit, seen, locks>>

\* cache_guild: the membership sets and the items of every wanted category
GuildSeed(p) ==
    /\ run[p].pc = "guild_seed"
    /\ cache' = seed_guild(cache, last.args)
    /\ Goto(p, "guild_available", None, FALSE)
    /\ StepFrame

\* self.0.unavailable_guilds.remove(&guild.id)
GuildAvailable(p) ==
    /\ run[p].pc = "guild_available"
    /\ cache' = [cache EXCEPT !.unavailable_guilds = @ \ {last.args.id}]
    /\ Goto(p, "guild_store", None, FALSE)
    /\ StepFrame

\* self.0.guilds.insert(guild.id, guild)
GuildStore(p) ==
    /\ run[p].pc = "guild_store"
    /\ cache' = [cache EXCEPT !.guilds = Insert(@, last.args.id, CachedGuild(last.args))]
    /\ Goto(p, "done", None, FALSE)
    /\ StepFrame

\* unavailable_guild: self.0.unavailable_guilds.insert(guild_id)
UnavailableInsert(p) ==
    /\ run[p].pc = "unavailable_insert"
    /\ cache' = [cache EXCEPT !.unavailable_guilds = @ \cup {last.args.id}]
    /\ Goto(p, "unavailable_remove", None, FALSE)
    /\ StepFrame

\* self.0.guilds.remove(&guild_id)
UnavailableRemove(p) ==
    /\ run[p].pc = "unavailable_remove"
    /\ cache' = [cache EXCEPT !.guilds = Remove(@, last.args.id)]
    /\ Goto(p, "done", None, FALSE)
    /\ StepFrame

\* ------------------------------------------------------------- the current-user slot under its mutex
\* current_user and cache_current_user, each as: lock, the copy of the value
\* field by field, unlock (the guard is dropped on return).  Threads 1 and 2
\* write the values last.args[1] and last.args[2], thread 3 reads into its
\* locals `old` (the id) and `flag` (the bot mark).

\* Positions at which a thread holds the mutex
SlotPcs == {"slot_id", "slot_bot", "slot_read_id", "slot_read_bot"}

\* A mutex that is never held
SlotNeverHeld(p) == FALSE

\* self.0.current_user.lock(): another thread holds the mutex
SlotHeld(p) == \E q \in Procs \ {p} : run[q].pc \in SlotPcs

BeginSlot ==
    \E u1, u2 \in UserValues :
        /\ last = NoCall
        /\ \A q \in Procs : run[q].pc = "idle"
        /\ prev' = cache
        /\ last' = CallOf("current_user_race", <<u1, u2>>)
        /\ run' = [p \in Procs |-> [NotRunning EXCEPT !.pc = IF p \in {1, 2} THEN "slot_lock" ELSE "slot_read_lock"]]
        /\ UNCHANGED <<cache, calls, limit, seen, locks>>

\* cache_current_user: .lock().expect(..)
SlotLock(p) ==
    /\ run[p].pc = "slot_lock"
    /\ ~SlotHeld(p)
    /\ Goto(p, "slot_id", None, FALSE)
    /\ UNCHANGED cache
    /\ StepFrame

\* .replace(current_user), first field
SlotWriteId(p) ==
    /\ run[p].pc = "slot_id"
    /\ cache' = [cache EXCEPT !.current_user.id = last.args[p].id]
    /\ Goto(p, "slot_bot", None, FALSE)
    /\ StepFrame

\* .replace(current_user), second field; the guard is dropped
SlotWriteBot(p) ==
    /\ run[p].pc = "slot_bot"
    /\ cache' = [cache EXCEPT !.current_user.bot = last.args[p].bot]
    /\ Goto(p, "done", None, FALSE)
    /\ StepFrame

\* current_user: .lock().expect(..)
SlotReadLock(p) ==
    /\ run[p].pc = "slot_read_lock"
    /\ ~SlotHeld(p)
    /\ Goto(p, "slot_read_id", None, FALSE)
    /\ UNCHANGED cache
    /\ StepFrame

\* .clone(), first field
SlotReadId(p) ==
    /\ run[p].pc = "slot_read_id"
    /\ Goto(p, "slot_read_bot", cache.current_user.id, FALSE)
    /\ UNCHANGED cache
    /\ StepFrame

\* .clone(), second field; the guard is dropped
SlotReadBot(p) ==
    /\ run[p].pc = "slot_read_bot"
    /\ Goto(p, "slot_read_done", run[p].old, cache.current_user.bot)
    /\ UNCHANGED cache
    /\ StepFrame

\* ------------------------------------------------------------- specifications
\* Only cache_voice_state, on a new cache.
NextVoice == CacheVoiceState

SpecVoice == Init /\ [][NextVoice]_vars

\* cache_voice_state calls on a new cache, the singled-out one taken step
\* by step.
NextVoiceSteps ==
    \/ CacheVoiceState
    \/ \E p \in Procs : VoiceBegin(p)
    \/ \E p \in Procs : VoiceLookup(p)
    \/ \E p \in Procs : VoiceUnmap(p)
    \/ \E p \in Procs : VoicePrune(p)
    \/ \E p \in Procs : VoiceGuildUnmap(p)
    \/ \E p \in Procs : VoiceGuildPrune(p)
    \/ \E p \in Procs : VoiceRemove(p)
    \/ \E p \in Procs : VoiceInsert(p)
    \/ \E p \in Procs : VoiceGuildInsert(p)
    \/ \E p \in Procs : VoiceChannelInsert(p)

SpecVoiceSteps == Init /\ [][NextVoiceSteps]_vars

\* At most MaxCalls completed cache_voice_state calls, then two calls for one
\* pair and two channels running at once, step by step.
NextVoiceRace ==
    \/ CacheVoiceState
    \/ VoiceBeginBoth
    \/ \E p \in Procs : VoiceLookup(p)
    \/ \E p \in Procs : VoiceUnmap(p)
    \/ \E p \in Procs : VoicePrune(p)
    \/ \E p \in Procs : VoiceInsert(p)
    \/ \E p \in Procs : VoiceGuildInsert(p)
    \/ \E p \in Procs : VoiceChannelInsert(p)

SpecVoiceRace == InitLimited /\ [][NextVoiceRace]_vars

\* A step of a thread that is inside a call
ThreadStep ==
    \/ \E p \in Procs : VoiceLookup(p)
    \/ \E p \in Procs : VoiceUnmap(p)
    \/ \E p \in Procs : VoicePrune(p)
    \/ \E p \in Procs : VoiceGuildUnmap(p)
    \/ \E p \in Procs : VoiceGuildPrune(p)
    \/ \E p \in Procs : VoiceRemove(p)
    \/ \E p \in Procs : VoiceInsert(p)
    \/ \E p \in Procs : VoiceGuildInsert(p)
    \/ \E p \in Procs : VoiceChannelInsert(p)
    \/ \E p \in Procs : StatesGet(p)
    \/ \E p \in Procs : StatesIter(p)
    \/ \E p \in Procs : StatesReturn(p)

\* A completed cache_voice_state call at most, then two cache_voice_state
\* calls and a voice_channel_states lookup running at once.
NextLocks ==
    \/ CacheVoiceState
    \/ BeginConcurrent
    \/ ThreadStep

SpecLocks == InitLocks /\ [][NextLocks]_vars

\* At most one completed upsert, then an upsert and a delete of its key at once.
NextUpsertDelete ==
    \/ CacheGuildChannel
    \/ CacheRole
    \/ CacheStageInstance
    \/ UpsertDeleteBegin
    \/ \E p \in Procs : ItemIndex(p)
    \/ \E p \in Procs : ItemUpsert(p)
    \/ \E p \in Procs : DeleteRemove(p)
    \/ \E p \in Procs : DeleteUnindex(p)

SpecUpsertDelete == InitShallow /\ [][NextUpsertDelete]_vars

\* Users cached one call after the other, then two cache_user calls at once.
NextUserRace ==
    \/ CacheUser
    \/ UserBegin
    \/ \E p \in Procs : UserGetMut(p)
    \/ \E p \in Procs : UserInsert(p)

SpecUserRace == InitLimited /\ [][NextUserRace]_vars

\* At most one completed emoji refresh, then two refreshes of one guild at once.
NextEmojisRace ==
    \/ CacheEmojis(AnonEmojis)
    \/ EmojisBegin
    \/ \E p \in Procs : EmojisFilter(p)
    \/ \E p \in Procs : EmojisRemove(p)
    \/ \E p \in Procs : EmojisRelease(p)
    \/ \E p \in Procs : EmojiCompare(p)
    \/ \E p \in Procs : EmojiUser(p)
    \/ \E p \in Procs : EmojiInsert(p)
    \/ \E p \in Procs : EmojiIndex(p)

SpecEmojisRace == InitShallow /\ [][NextEmojisRace]_vars

\* Guilds cached and marked unavailable one call after the other, then both
\* at once for one guild.
NextGuildRace ==
    \/ CacheGuild(ChannelSnapshots)
    \/ UnavailableGuild
    \/ GuildRaceBegin
    \/ \E p \in Procs : GuildSeed(p)
    \/ \E p \in Procs : GuildAvailable(p)
    \/ \E p \in Procs : GuildStore(p)
    \/ \E p \in Procs : UnavailableInsert(p)
    \/ \E p \in Procs : UnavailableRemove(p)

SpecGuildRace == InitLimited /\ [][NextGuildRace]_vars

\* The current-user slot: its writers one after the other, then two writers
\* and a reader at once.
NextSlot ==
    \/ CacheCurrentUser
    \/ CacheUser
    \/ Clear
    \/ BeginSlot
    \/ \E p \in Procs : SlotLock(p)
    \/ \E p \in Procs : SlotWriteId(p)
    \/ \E p \in Procs : SlotWriteBot(p)
    \/ \E p \in Procs : SlotReadLock(p)
    \/ \E p \in Procs : SlotReadId(p)
    \/ \E p \in Procs : SlotReadBot(p)

SpecSlot == InitLimited /\ [][NextSlot]_vars

\* At most one completed upsert, then one upsert taken step by step.
NextUpsertSteps ==
    \/ CacheGuildChannel
    \/ CacheRole
    \/ CacheStageInstance
    \/ CacheIntegration
    \/ CacheEmoji(Emojis)
    \/ CacheMember
    \/ \E p \in Procs : UpsertBegin(p)
    \/ \E p \in Procs : ItemIndex(p)
    \/ \E p \in Procs : ItemUpsert(p)
    \/ \E p \in Procs : EmojiCompare(p)
    \/ \E p \in Procs : EmojiUser(p)
    \/ \E p \in Procs : EmojiInsert(p)
    \/ \E p \in Procs : EmojiIndex(p)
    \/ \E p \in Procs : MemberCompare(p)
    \/ \E p \in Procs : MemberUser(p)
    \/ \E p \in Procs : MemberInsert(p)
    \/ \E p \in Procs : MemberIndex(p)
    \/ \E p \in Procs : PartialCompare(p)
    \/ \E p \in Procs : PartialIndex(p)
    \/ \E p \in Procs : PartialInsert(p)

SpecUpsertSteps == InitShallow /\ [][NextUpsertSteps]_vars

\* The guild channel tables under their writers.
NextChannel ==
    \/ CacheGuildChannel
    \/ CacheGuild(ChannelSnapshots)
    \/ DeleteGuildChannel

SpecChannel == Init /\ [][NextChannel]_vars

\* The first guild snapshot a cache of any configuration receives.
NextSeed == SeedGuild

SpecSeed == InitConfig /\ [][NextSeed]_vars

\* The upserts and deletes of channels, roles, stage instances,
\* integrations and groups, and clear, MaxCalls + 1 calls deep.
NextDelete ==
    \/ CacheGuildChannel
    \/ CacheRole
    \/ CacheStageInstance
    \/ CacheIntegration
    \/ DeleteGuildChannel
    \/ DeleteRole
    \/ DeleteStageInstance
    \/ DeleteIntegration
    \/ CacheGroup
    \/ DeleteGroup
    \/ Clear

SpecDelete == InitDeep /\ [][NextDelete]_vars

\* Channels and roles under their single-entity writers, with every delete.
NextStale ==
    \/ CacheGuildChannel
    \/ CacheRole
    \/ DeleteGuildChannel
    \/ DeleteRole
    \/ DeleteStageInstance
    \/ DeleteIntegration
    \/ DeleteGroup

SpecStale == Init /\ [][NextStale]_vars

\* The voice tables under both of their writers.
NextGuildVoice ==
    \/ CacheVoiceState
    \/ CacheGuild(VoiceSnapshots)

SpecGuildVoice == Init /\ [][NextGuildVoice]_vars

\* The users table under every call that writes it.
NextUser ==
    \/ CacheUser
    \/ CacheMember
    \/ CacheEmoji({e \in Emojis : e.id = 1 /\ e.available})
    \/ RemoveGuildReference

SpecUser == Init /\ [][NextUser]_vars

\* The guilds that hold a reference to a user: those cache_user was given for
\* it, less those released since.
SeenAfter(call) ==
    CASE call.op = "cache_user" /\ call.args[2] # None -> [seen EXCEPT ![call.args[1].id] = @ \cup {call.args[2]}]
      [] call.op = "remove_guild_reference" -> [seen EXCEPT ![call.args[1]] = @ \ {call.args[2]}]
      [] OTHER -> seen

TrackedCacheUser == \E user \in UserValues, g \in Guilds \cup {None} : Step(CallOf("cache_user", <<user, g>>)) /\ seen' = SeenAfter(CallOf("cache_user", <<user, g>>))

TrackedRemoveGuildReference == \E u \in Users, g \in Guilds : Step(CallOf("remove_guild_reference", <<u, g>>)) /\ seen' = SeenAfter(CallOf("remove_guild_reference", <<u, g>>))

\* cache_user and the release of a reference.
NextRefs ==
    \/ TrackedCacheUser
    \/ TrackedRemoveGuildReference

SpecRefs == Init /\ [][NextRefs]_vars

\* The roles table under its single, bulk and delete calls.
NextRoles ==
    \/ CacheRole
    \/ CacheRoles
    \/ DeleteRole

SpecRoles == Init /\ [][NextRoles]_vars

\* The emoji and users tables under emojis that carry an uploader.
NextUploads ==
    \/ CacheEmoji(Emojis)
    \/ CacheEmojis(Emojis)
    \/ CacheUser

SpecUploads == InitLimited /\ [][NextUploads]_vars

\* The emoji tables under their three writers.
NextEmoji ==
    \/ CacheEmoji(AnonEmojis)
    \/ CacheEmojis(AnonEmojis)
    \/ CacheGuild(EmojiSnapshots)

SpecEmoji == Init /\ [][NextEmoji]_vars

\* The single-entity upserts and deletes of the guild-scoped categories,
\* MaxCalls calls deep.
NextIndex ==
    \/ CacheGuildChannel
    \/ CacheRole
    \/ CacheStageInstance
    \/ CacheIntegration
    \/ CacheEmoji(Emojis)
    \/ CacheMember
    \/ DeleteGuildChannel
    \/ DeleteRole
    \/ DeleteStageInstance
    \/ DeleteIntegration

SpecIndex == InitLimited /\ [][NextIndex]_vars

\* Every operation, MaxCalls calls deep.
Next ==
    \/ CacheGuild(GuildSnapshots)
    \/ CacheGuildChannel
    \/ CacheRole
    \/ CacheStageInstance
    \/ CacheIntegration
    \/ CacheEmoji(Emojis)
    \/ CacheEmojis(AnonEmojis)
    \/ CacheMember
    \/ CacheUser
    \/ RemoveGuildReference
    \/ CacheVoiceState
    \/ CachePresence
    \/ CacheCurrentUser
    \/ CacheGroup
    \/ CachePrivateChannel
    \/ DeleteGroup
    \/ DeleteGuildChannel
    \/ DeleteRole
    \/ DeleteStageInstance
    \/ DeleteIntegration
    \/ UnavailableGuild
    \/ Clear

Spec == InitLimited /\ [][Next]_vars

\* ------------------------------------------------------------- properties
\* The set a map of sets holds for k, empty when it holds none
SetAt(map, k) == IF Has(map, k) THEN map[k] ELSE {}

\* The channels whose connected set holds the pair
ChannelsOf(c, pair) == {ch \in DOMAIN c.voice_state_channels : pair \in c.voice_state_channels[ch]}

\* The (guild, user) pair a voice state is about
PairOf(voice_state) == <<voice_state.guild_id, voice_state.user_id>>

\* The last call was cache_voice_state with a guild id
VoiceCall == last.op = "cache_voice_state" /\ last.args.guild_id # None

\* C1: over the single-entity upserts and deletes, the membership set of guild
\* G holds key K exactly when the primary table holds K with owning guild G.
C1_IndexCoherent ==
    \A g \in Guilds :
        /\ \A k \in Channels : k \in SetAt(cache.guild_channels, g) <=> (Has(cache.channels_guild, k) /\ cache.channels_guild[k].guild_id = g)
        /\ \A k \in Keys : k \in SetAt(cache.guild_roles, g) <=> (Has(cache.roles, k) /\ cache.roles[k].guild_id = g)
        /\ \A k \in Keys : k \in SetAt(cache.guild_emojis, g) <=> (Has(cache.emojis, k) /\ cache.emojis[k].guild_id = g)
        /\ \A k \in Keys : k \in SetAt(cache.guild_stage_instances, g) <=> (Has(cache.stage_instances, k) /\ cache.stage_instances[k].guild_id = g)
        /\ \A k \in Keys : k \in SetAt(cache.guild_integrations, g) <=> (Has(cache.integrations, <<g, k>>) /\ cache.integrations[<<g, k>>].guild_id = g)
        /\ \A u \in Users : u \in SetAt(cache.guild_members, g) <=> (Has(cache.members, <<g, u>>) /\ cache.members[<<g, u>>].guild_id = g)

\* C2: after cache_voice_state calls on a new cache, a pair is in voice_states
\* iff its user is in its guild's set, iff it is in the set of exactly one
\* channel, the channel its voice state records.
C2_VoiceThreeWay ==
    \A g \in Guilds, u \in Users :
        LET inStates == Has(cache.voice_states, <<g, u>>)
            chans == ChannelsOf(cache, <<g, u>>)
        IN /\ inStates <=> u \in SetAt(cache.voice_state_guilds, g)
           /\ inStates <=> Cardinality(chans) = 1
           /\ inStates => chans = {cache.voice_states[<<g, u>>].channel_id}

\* A move has just been made while another pair stays connected.
C2_Witness ==
    /\ VoiceCall
    /\ Has(prev.voice_states, PairOf(last.args))
    /\ last.args.channel_id # None
    /\ prev.voice_states[PairOf(last.args)].channel_id # last.args.channel_id
    /\ Cardinality(DOMAIN cache.voice_states) >= 2

\* C3: a user cached under N guilds and released from N-1 of them is still
\* cached, with exactly the one guild left in its set; released from the last
\* one, it is gone.  seen[u] is the guilds that still hold u.
C3_ReferenceCounting ==
    \A u \in Users :
        /\ Cardinality(seen[u]) = 1 => Has(cache.users, u) /\ cache.users[u].guilds = seen[u]
        /\ seen[u] = {} => ~Has(cache.users, u)

\* C4: every record of the users table has a non-empty guild-reference set.
C4_UsersReferenced == \A u \in DOMAIN cache.users : cache.users[u].guilds # {}

\* A release has just left a user with one of its two guilds.
C4_Witness ==
    /\ last.op = "remove_guild_reference"
    /\ Has(prev.users, last.args[1])
    /\ Cardinality(prev.users[last.args[1]].guilds) = 2
    /\ last.args[2] \in prev.users[last.args[1]].guilds
    /\ Has(cache.users, last.args[1])

\* C5: after cache_emojis(G, incoming), G's emoji set is exactly the keys of
\* incoming, and what G indexed before and incoming lacks is gone from emojis.
C5_DiffRefresh ==
    last.op = "cache_emojis" =>
        /\ SetAt(cache.guild_emojis, last.args[1]) = Ids(last.args[2])
        /\ \A k \in SetAt(prev.guild_emojis, last.args[1]) \ Ids(last.args[2]) : ~Has(cache.emojis, k)

\* C6: after clear() the cache is that of a new cache: every table and index
\* empty, no current user.
C6_ClearEmpties == last.op = "clear" => cache = [NewCache EXCEPT !.config = prev.config]

\* The upserts
Upserts == {"cache_guild", "cache_guild_channel", "cache_role", "cache_emoji", "cache_emojis", "cache_member", "cache_stage_instance", "cache_integration", "cache_user", "cache_voice_state"}

\* C7: an upsert applied a second time leaves every table and index as the
\* first application left them.
C7_Idempotent == last.op \in Upserts => Apply(cache, last) = cache

\* The pair is absent and the record carries a channel
IsJoin == VoiceCall /\ last.args.channel_id # None /\ ~Has(prev.voice_states, PairOf(last.args))

\* Every pair but the call's has the entries it had, in all three tables
OtherPairsKept ==
    \A g \in Guilds, u \in Users :
        <<g, u>> # PairOf(last.args) =>
            /\ Has(cache.voice_states, <<g, u>>) <=> Has(prev.voice_states, <<g, u>>)
            /\ Has(cache.voice_states, <<g, u>>) => cache.voice_states[<<g, u>>] = prev.voice_states[<<g, u>>]
            /\ ChannelsOf(cache, <<g, u>>) = ChannelsOf(prev, <<g, u>>)
            /\ u \in SetAt(cache.voice_state_guilds, g) <=> u \in SetAt(prev.voice_state_guilds, g)

\* C8: a join stores the record, puts the pair in the channel's set and the
\* user in the guild's set, and changes no other pair's entries.
C8_VoiceJoin ==
    IsJoin =>
        /\ Has(cache.voice_states, PairOf(last.args))
        /\ cache.voice_states[PairOf(last.args)] = last.args
        /\ PairOf(last.args) \in SetAt(cache.voice_state_channels, last.args.channel_id)
        /\ last.args.user_id \in SetAt(cache.voice_state_guilds, last.args.guild_id)
        /\ OtherPairsKept

\* A join into a cache that already holds another pair's voice state.
C8_Witness == IsJoin /\ prev.voice_states # EmptyMap /\ Has(cache.voice_states, PairOf(last.args))

\* The pair is connected to another channel than the record's
IsMove ==
    /\ VoiceCall
    /\ last.args.channel_id # None
    /\ Has(prev.voice_states, PairOf(last.args))
    /\ prev.voice_states[PairOf(last.args)].channel_id # last.args.channel_id

\* C9: a move takes the pair out of c1's set, removes c1's entry when that
\* leaves it empty, puts the pair in c2's set, and leaves the number of
\* voice_states entries and the guild's connected set as they were.
C9_VoiceMove ==
    IsMove =>
        LET c1 == prev.voice_states[PairOf(last.args)].channel_id
        IN /\ PairOf(last.args) \notin SetAt(cache.voice_state_channels, c1)
           /\ Has(cache.voice_state_channels, c1) => cache.voice_state_channels[c1] # {}
           /\ PairOf(last.args) \in SetAt(cache.voice_state_channels, last.args.channel_id)
           /\ Cardinality(DOMAIN cache.voice_states) = Cardinality(DOMAIN prev.voice_states)
           /\ Has(cache.voice_state_guilds, last.args.guild_id) <=> Has(prev.voice_state_guilds, last.args.guild_id)
           /\ SetAt(cache.voice_state_guilds, last.args.guild_id) = SetAt(prev.voice_state_guilds, last.args.guild_id)

\* The pair is connected and the record carries no channel
IsLeave == VoiceCall /\ last.args.channel_id = None /\ Has(prev.voice_states, PairOf(last.args))

\* C10: a leave takes the pair out of its channel's set and the user out of
\* the guild's set, removes either entry when that leaves it empty, removes
\* the voice_states record and writes no record.
C10_VoiceLeave ==
    IsLeave =>
        LET c == prev.voice_states[PairOf(last.args)].channel_id
            g == last.args.guild_id
        IN /\ SetAt(cache.voice_state_channels, c) = SetAt(prev.voice_state_channels, c) \ {PairOf(last.args)}
           /\ Has(cache.voice_state_channels, c) <=> SetAt(prev.voice_state_channels, c) \ {PairOf(last.args)} # {}
           /\ SetAt(cache.voice_state_guilds, g) = SetAt(prev.voice_state_guilds, g) \ {last.args.user_id}
           /\ Has(cache.voice_state_guilds, g) <=> SetAt(prev.voice_state_guilds, g) \ {last.args.user_id} # {}
           /\ cache.voice_states = Remove(prev.voice_states, PairOf(last.args))

\* The last user of a channel and of a guild has just left, another guild's
\* user staying connected.
C10_Witness ==
    /\ IsLeave
    /\ ~Has(cache.voice_state_channels, prev.voice_states[PairOf(last.args)].channel_id)
    /\ ~Has(cache.voice_state_guilds, last.args.guild_id)
    /\ cache.voice_states # EmptyMap

\* Taken step by step, a call ends in the cache the call as a whole gives
VoiceStepsAgree == \A p \in Procs : run[p].pc = "done" => cache = Apply(prev, last)

\* Thread p is inside (or at the end of) an update that names the channel the
\* pair was already connected to
IsSameChannel(p) ==
    /\ run[p].pc # "idle"
    /\ run[p].vs.guild_id # None
    /\ run[p].vs.channel_id # None
    /\ Has(prev.voice_states, RunPair(p))
    /\ prev.voice_states[RunPair(p)].channel_id = run[p].vs.channel_id

\* C11: during a same-channel update the cleanup is skipped: at every step of
\* the call the channel's connected set exists and holds the pair, and nothing
\* but the pair's voice_states record is written.
C11_SameChannelUpdate ==
    \A p \in Procs :
        IsSameChannel(p) =>
            /\ RunPair(p) \in SetAt(cache.voice_state_channels, run[p].vs.channel_id)
            /\ cache.voice_state_channels = prev.voice_state_channels
            /\ cache.voice_state_guilds = prev.voice_state_guilds
            /\ \A pair \in DOMAIN prev.voice_states \ {RunPair(p)} : Has(cache.voice_states, pair) /\ cache.voice_states[pair] = prev.voice_states[pair]

\* C12: after every completed call no entry of voice_state_channels or of
\* voice_state_guilds is an empty set.
C12_NoEmptySets ==
    /\ \A ch \in DOMAIN cache.voice_state_channels : cache.voice_state_channels[ch] # {}
    /\ \A g \in DOMAIN cache.voice_state_guilds : cache.voice_state_guilds[g] # {}

\* The channel is retrievable with guild g as its guild, and g's set holds it
CachedFor(g, channel) ==
    /\ \E found \in guild_channel(cache, channel.id) : found.guild_id = g
    /\ \E set \in guild_channels(cache, g) : channel.id \in set

\* C13: a channel cached through cache_guild_channel or cache_guild for guild
\* G is retrievable afterwards with G as its guild, whatever guild id it came
\* with, and its id is in guild_channels(G).
C13_ChannelBackReference ==
    /\ last.op = "cache_guild_channel" => CachedFor(last.args[1], last.args[2])
    /\ last.op = "cache_guild" /\ "CHANNEL" \in prev.config => \A i \in DOMAIN last.args.channels : CachedFor(last.args.id, last.args.channels[i])

\* A guild snapshot has brought a channel that names another guild and was
\* cached under another guild.
C13_Witness ==
    /\ last.op = "cache_guild"
    /\ last.args.channels # <<>>
    /\ last.args.channels[1].guild_id \notin {None, last.args.id}
    /\ Has(prev.channels_guild, last.args.channels[1].id)
    /\ prev.channels_guild[last.args.channels[1].id].guild_id # last.args.id
    /\ CachedFor(last.args.id, last.args.channels[1])

\* The cache the last call found was configured to hold the category
Enabled(resource_type) == resource_type \in prev.config

\* The resource gate for one category of the snapshot the last call brought:
\* disabled, no primary entry and no set for the guild; enabled and without
\* items, the empty set for the guild
Gate(resource_type, primary, index, items) ==
    /\ ~Enabled(resource_type) => DOMAIN primary = {} /\ Get(index, last.args.id) = {}
    /\ Enabled(resource_type) /\ items = <<>> => Get(index, last.args.id) = {{}}

\* C14: after cache_guild(G) on an empty cache, a disabled category has no
\* primary entry and no membership set for G, and an enabled category of
\* which the snapshot has no item has the empty set for G.
C14_ResourceGate ==
    last.op = "cache_guild" /\ prev = [NewCache EXCEPT !.config = prev.config] =>
        /\ Gate("CHANNEL", cache.channels_guild, cache.guild_channels, last.args.channels)
        /\ Gate("EMOJI", cache.emojis, cache.guild_emojis, last.args.emojis)
        /\ Gate("MEMBER", cache.members, cache.guild_members, last.args.members)
        /\ Gate("PRESENCE", cache.presences, cache.guild_presences, last.args.presences)
        /\ Gate("ROLE", cache.roles, cache.guild_roles, last.args.roles)
        /\ Gate("VOICE_STATE", cache.voice_states, cache.voice_state_guilds, last.args.voice_states)
        /\ Gate("STAGE_INSTANCE", cache.stage_instances, cache.guild_stage_instances, last.args.stage_instances)

\* A snapshot with a member and an emoji with uploader has been cached with
\* members disabled and emojis enabled: the uploader is cached, no member is.
C14_Witness ==
    /\ last.op = "cache_guild"
    /\ ~Enabled("MEMBER") /\ Enabled("EMOJI") /\ Enabled("ROLE")
    /\ last.args.members # <<>>
    /\ last.args.roles = <<>>
    /\ DOMAIN cache.users # {}
    /\ DOMAIN cache.members = {}
    /\ Get(cache.guild_roles, last.args.id) = {{}}

\* The lookup is None, and the owner's set is Some(set) without the key
DeletedFrom(lookup, scope, key) == lookup = {} /\ \E set \in scope : key \notin set

\* C15: after the delete of a cached channel, role, stage instance or
\* integration its point lookup is None and the set of the guild recorded
\* for it is still there, without the key.
C15_DeleteCached ==
    /\ last.op = "delete_guild_channel" /\ Has(prev.channels_guild, last.args) =>
        DeletedFrom(guild_channel(cache, last.args), guild_channels(cache, prev.channels_guild[last.args].guild_id), last.args)
    /\ last.op = "delete_role" /\ Has(prev.roles, last.args) =>
        DeletedFrom(role(cache, last.args), guild_roles(cache, prev.roles[last.args].guild_id), last.args)
    /\ last.op = "delete_stage_instance" /\ Has(prev.stage_instances, last.args) =>
        DeletedFrom(stage_instance(cache, last.args), guild_stage_instances(cache, prev.stage_instances[last.args].guild_id), last.args)
    /\ last.op = "delete_integration" /\ Has(prev.integrations, <<last.args[1], last.args[2]>>) =>
        DeletedFrom(GetData(cache.integrations, <<last.args[1], last.args[2]>>), Get(cache.guild_integrations, last.args[1]), last.args[2])

\* The last call was a delete of a key its primary table did not hold
DeleteOfAbsent ==
    \/ last.op = "delete_guild_channel" /\ ~Has(prev.channels_guild, last.args)
    \/ last.op = "delete_role" /\ ~Has(prev.roles, last.args)
    \/ last.op = "delete_stage_instance" /\ ~Has(prev.stage_instances, last.args)
    \/ last.op = "delete_integration" /\ ~Has(prev.integrations, <<last.args[1], last.args[2]>>)
    \/ last.op = "delete_group" /\ ~Has(prev.groups, last.args)

\* C16: the delete of a key that is not in its primary table changes no
\* table and no index set.
C16_DeleteAbsent == DeleteOfAbsent => cache = prev

\* A role that is not cached has been deleted while a guild's set held its key.
C16_Witness ==
    /\ last.op = "delete_role"
    /\ ~Has(prev.roles, last.args)
    /\ \E g \in Guilds : last.args \in SetAt(prev.guild_roles, g)
    /\ cache = prev

\* The cache without its guilds table and its set of unavailable guilds
Children(c) == [c EXCEPT !.guilds = EmptyMap, !.unavailable_guilds = {}]

\* C17: unavailable_guild(G) takes G out of guilds and puts it in
\* unavailable_guilds, and changes no child table, no membership set and no
\* voice table.
C17_UnavailableNoCascade ==
    last.op = "unavailable_guild" =>
        /\ ~Has(cache.guilds, last.args)
        /\ last.args \in cache.unavailable_guilds
        /\ Children(cache) = Children(prev)

\* A cached guild with a member has been made unavailable.
C17_Witness ==
    /\ last.op = "unavailable_guild"
    /\ Has(prev.guilds, last.args)
    /\ SetAt(cache.guild_members, last.args) # {}
    /\ DOMAIN cache.members # {}

\* C18: cache_user without a guild leaves the users table, reference sets
\* included, as it was, whether the user is absent, cached and equal, or
\* cached with other data.
C18_UserWithoutGuild == last.op = "cache_user" /\ last.args[2] = None => cache.users = prev.users /\ cache = prev

\* A user cached with other data has been presented without a guild.
C18_Witness ==
    /\ last.op = "cache_user"
    /\ last.args[2] = None
    /\ Has(prev.users, last.args[1].id)
    /\ prev.users[last.args[1].id].user # last.args[1]
    /\ Cardinality(DOMAIN cache.users) = 2

\* The last call was cache_user with a guild, for a user cached with equal data
IsEqualUser ==
    /\ last.op = "cache_user"
    /\ last.args[2] # None
    /\ Has(prev.users, last.args[1].id)
    /\ prev.users[last.args[1].id].user = last.args[1]

\* C19: cache_user(user, Some(g)) for a user cached with equal data keeps the
\* record and the guilds of its set, adds g, and changes no other user.
C19_EqualUserGainsGuild ==
    IsEqualUser =>
        /\ Get(cache.users, last.args[1].id) = {UserEntry(last.args[1], prev.users[last.args[1].id].guilds \cup {last.args[2]})}
        /\ \A u \in Users \ {last.args[1].id} : Get(cache.users, u) = Get(prev.users, u)

\* An equal user has gained a second guild while another user is cached.
C19_Witness ==
    /\ IsEqualUser
    /\ last.args[2] \notin prev.users[last.args[1].id].guilds
    /\ Cardinality(cache.users[last.args[1].id].guilds) = 2
    /\ Cardinality(DOMAIN cache.users) = 2

\* ------------------------------------------------------------- member calls only
NextMember ==
    \/ CacheMember

SpecMember == Init /\ [][NextMember]_vars

ConnectedTo(c, channel_id) == {key \in DOMAIN c.voice_states : c.voice_states[key].channel_id = channel_id}

\* C21: voice_channel_states(ch) is None exactly when no cached voice state
\* has channel ch; otherwise it holds the cached record of every pair
\* connected to ch exactly once and nothing else.
C21_VoiceChannelStates ==
    \A ch \in Channels :
        IF ConnectedTo(cache, ch) = {}
        THEN voice_channel_states(cache, ch) = {}
        ELSE voice_channel_states(cache, ch) = {[r \in {cache.voice_states[key] : key \in ConnectedTo(cache, ch)} |-> 1]}

\* One channel holds two pairs and another holds none.
C21_Witness ==
    \E ch \in Channels, other \in Channels :
        /\ Cardinality(ConnectedTo(cache, ch)) = 2
        /\ ConnectedTo(cache, other) = {}
        /\ voice_channel_states(cache, other) = {}
        /\ \E bag \in voice_channel_states(cache, ch) : Cardinality(DOMAIN bag) = 2

\* C22: cache_emojis(G, incoming) called again with the same collection
\* changes no table and no index set.
C22_ResendIsNoOp ==
    last.op = "cache_emojis" => cache_emojis(cache, last.args[1], last.args[2]) = cache

\* The voice states of a snapshot that carry a guild id and a channel
Accepted(guild) == {guild.voice_states[i] : i \in {j \in DOMAIN guild.voice_states : guild.voice_states[j].guild_id # None /\ guild.voice_states[j].channel_id # None}}

\* C23: cache_voice_state with a record that has no guild id leaves
\* voice_states, voice_state_channels and voice_state_guilds as they were, and
\* after cache_guild every voice state cached anew, and every pair connected
\* anew, comes from a snapshot record that carries a guild id.
C23_NoGuildIdDropped ==
    /\ last.op = "cache_voice_state" /\ last.args.guild_id = None =>
        /\ cache.voice_states = prev.voice_states
        /\ cache.voice_state_channels = prev.voice_state_channels
        /\ cache.voice_state_guilds = prev.voice_state_guilds
    /\ last.op = "cache_guild" =>
        /\ \A key \in DOMAIN cache.voice_states :
            \/ Has(prev.voice_states, key) /\ prev.voice_states[key] = cache.voice_states[key]
            \/ cache.voice_states[key] \in Accepted(last.args)
        /\ \A ch \in DOMAIN cache.voice_state_channels :
            cache.voice_state_channels[ch] \ SetAt(prev.voice_state_channels, ch) \subseteq {PairOf(vs) : vs \in Accepted(last.args)}

\* A guild snapshot whose voice state has a channel but no guild id has been
\* cached by a cache that holds voice states.
C23_Witness ==
    /\ prev.voice_states # EmptyMap
    /\ last.op = "cache_guild"
    /\ Len(last.args.voice_states) = 1
    /\ last.args.voice_states[1].guild_id = None
    /\ last.args.voice_states[1].channel_id # None
    /\ cache.voice_states = prev.voice_states

\* The last call was a guild-scoped upsert whose value equals the value
\* cached under the same key
IsEqualUpsert ==
    \/ last.op = "cache_role" /\ Has(prev.roles, last.args[2].id) /\ prev.roles[last.args[2].id].data = last.args[2]
    \/ /\ last.op = "cache_guild_channel"
       /\ Has(prev.channels_guild, last.args[2].id)
       /\ prev.channels_guild[last.args[2].id].data = [last.args[2] EXCEPT !.guild_id = last.args[1]]
    \/ /\ last.op = "cache_stage_instance"
       /\ Has(prev.stage_instances, last.args[2].id)
       /\ prev.stage_instances[last.args[2].id].data = last.args[2]
    \/ /\ last.op = "cache_integration"
       /\ Has(prev.integrations, <<last.args[1], last.args[2].id>>)
       /\ prev.integrations[<<last.args[1], last.args[2].id>>].data = last.args[2]
    \/ /\ last.op = "cache_emoji"
       /\ Has(prev.emojis, last.args[2].id)
       /\ prev.emojis[last.args[2].id].data = CachedEmoji(last.args[2])
    \/ /\ last.op = "cache_member"
       /\ Has(prev.members, <<last.args[1], last.args[2].user.id>>)
       /\ prev.members[<<last.args[1], last.args[2].user.id>>] = CachedMember(last.args[1], last.args[2])

\* C24: an upsert of a value equal to the cached one changes neither the
\* primary tables nor any membership set, whichever guild the call names.
C24_EqualUpsertNoOp == IsEqualUpsert => cache = prev

\* C25: after cache_guild(G, snapshot), for every enabled category G's
\* membership set is exactly the key set of the snapshot's collection.
C25_GuildRefresh ==
    last.op = "cache_guild" =>
        /\ Enabled("CHANNEL") => Get(cache.guild_channels, last.args.id) = {Ids(last.args.channels)}
        /\ Enabled("EMOJI") => Get(cache.guild_emojis, last.args.id) = {Ids(last.args.emojis)}
        /\ Enabled("MEMBER") => Get(cache.guild_members, last.args.id) = {{last.args.members[i].user.id : i \in DOMAIN last.args.members}}
        /\ Enabled("ROLE") => Get(cache.guild_roles, last.args.id) = {Ids(last.args.roles)}
        /\ Enabled("STAGE_INSTANCE") => Get(cache.guild_stage_instances, last.args.id) = {Ids(last.args.stage_instances)}

\* C26: after cache_guild(G) with presences enabled, or cache_presence(G, p),
\* guild_presences(G) contains user u exactly when presence(G, u) is cached.
C26_PresenceIndexCoherent ==
    \A g \in Guilds, u \in Users :
        \/ last.op = "cache_guild" /\ last.args.id = g /\ Enabled("PRESENCE")
        \/ last.op = "cache_presence" /\ last.args[1] = g
        => ((\E set \in guild_presences(cache, g) : u \in set) <=> presence(cache, g, u) # {})

\* C27: after cache_roles(G, incoming), every role G indexed before and
\* incoming lacks is gone from the roles table and from guild_roles(G), and
\* guild_roles(G) is exactly the incoming key set.
C27_RoleRefresh ==
    last.op = "cache_roles" =>
        /\ SetAt(cache.guild_roles, last.args[1]) = Ids(last.args[2])
        /\ \A k \in SetAt(prev.guild_roles, last.args[1]) \ Ids(last.args[2]) : role(cache, k) = {}

\* Two concurrent calls for one pair have both returned
BothReturned == last.op = "cache_voice_state_twice" /\ \A p \in Procs : run[p].pc \in {"idle", "done"}

\* C28: once two concurrent cache_voice_state calls for one pair and two
\* channels have returned, the pair is in the connected set of exactly the
\* channel its voice_states record names, and in no other channel's set.
C28_NoDuplicatesAfterRace ==
    BothReturned =>
        /\ Has(cache.voice_states, PairKey(last.args[1]))
        /\ ChannelsOf(cache, PairKey(last.args[1])) = {cache.voice_states[PairKey(last.args[1])].channel_id}

\* Some thread is inside a call
SomeRunning == \E p \in Procs : run[p].pc \notin {"idle", "done"}

\* C29: concurrent calls never block each other for good: while a thread is
\* inside a call, some thread can take its next step, under either admission
\* policy of the locks.
C29_DeadlockFree == SomeRunning => ENABLED ThreadStep

\* Taken step by step, an upsert ends in the cache the call as a whole gives
UpsertStepsAgree == last \in UpsertCalls /\ (\E p \in Procs : run[p].pc = "done") => cache = Apply(prev, last)

\* An upsert is under way or has just returned
InUpsert == last \in UpsertCalls /\ \E p \in Procs : run[p].pc # "idle"

\* C30: in every state of a single guild-scoped upsert, a key the primary
\* table holds is in the membership set of the guild recorded as its owner.
C30_IndexBeforePrimary ==
    InUpsert =>
        /\ \A k \in DOMAIN cache.channels_guild : k \in SetAt(cache.guild_channels, cache.channels_guild[k].guild_id)
        /\ \A k \in DOMAIN cache.roles : k \in SetAt(cache.guild_roles, cache.roles[k].guild_id)
        /\ \A k \in DOMAIN cache.stage_instances : k \in SetAt(cache.guild_stage_instances, cache.stage_instances[k].guild_id)
        /\ \A k \in DOMAIN cache.integrations : k[2] \in SetAt(cache.guild_integrations, cache.integrations[k].guild_id)
        /\ \A k \in DOMAIN cache.emojis : k \in SetAt(cache.guild_emojis, cache.emojis[k].guild_id)
        /\ \A k \in DOMAIN cache.members : k[2] \in SetAt(cache.guild_members, cache.members[k].guild_id)

\* Thread p is inside (or at the return of) a single cache_voice_state call
\* that moves its pair from the channel it was cached in to another channel
Moving(p) ==
    /\ last.op = "cache_voice_state"
    /\ run[p].pc # "idle"
    /\ Has(prev.voice_states, RunPair(p))
    /\ prev.voice_states[RunPair(p)].channel_id # None
    /\ run[p].vs.channel_id # None
    /\ run[p].vs.channel_id # prev.voice_states[RunPair(p)].channel_id

\* C31: while a single cache_voice_state call moves a pair from one channel
\* to another, in no state is the pair in the connected sets of both channels.
C31_CleanupBeforeJoin ==
    \A p \in Procs :
        Moving(p) => ~(/\ RunPair(p) \in SetAt(cache.voice_state_channels, prev.voice_states[RunPair(p)].channel_id)
                       /\ RunPair(p) \in SetAt(cache.voice_state_channels, run[p].vs.channel_id))

\* The move has reached its last step: the pair has left the old channel's
\* set and is about to enter the new one's
C31_Witness ==
    \E p \in Procs :
        /\ Moving(p)
        /\ run[p].pc = "channel_insert"
        /\ RunPair(p) \notin SetAt(cache.voice_state_channels, prev.voice_states[RunPair(p)].channel_id)
        /\ RunPair(p) \notin SetAt(cache.voice_state_channels, run[p].vs.channel_id)

\* What the reading thread's current_user() call returned
SlotReturned(p) == IF run[p].old = None /\ ~run[p].flag THEN {} ELSE {[id |-> run[p].old, bot |-> run[p].flag]}

\* C32: current_user() is None on a new cache and after clear(), is the
\* value of the latest cache_current_user call, is left alone by every other
\* call, and a read racing with two writers returns the value found at the
\* start or one of the two written values, whole.
C32_CurrentUserSlot ==
    /\ calls = 0 /\ last = NoCall => current_user(cache) = {}
    /\ last.op = "clear" => current_user(cache) = {}
    /\ last.op = "cache_current_user" => current_user(cache) = {last.args}
    /\ last.op = "cache_user" => current_user(cache) = current_user(prev)
    /\ \A p \in Procs :
          last.op = "current_user_race" /\ run[p].pc = "slot_read_done"
              => SlotReturned(p) \in {current_user(prev), {last.args[1]}, {last.args[2]}}

\* A read that came between two writers of values differing in both fields
C32_Witness ==
    /\ last.op = "current_user_race"
    /\ last.args[1].id # last.args[2].id
    /\ last.args[1].bot # last.args[2].bot
    /\ \E p \in Procs : run[p].pc = "slot_read_done" /\ SlotReturned(p) = {last.args[1]}
    /\ cache.current_user = last.args[2]
    /\ \A q \in {1, 2} : run[q].pc = "done"

\* Threads 1 and 2 have returned from concurrent cache_voice_state calls for
\* two different users; thread `leaver` took the only pair out of the channel
\* that thread `joiner` joined
LastOneLeft(leaver, joiner) ==
    /\ last.op = "concurrent"
    /\ run[leaver].pc = "done" /\ run[joiner].pc = "done"
    /\ RunPair(leaver) # RunPair(joiner)
    /\ run[joiner].vs.channel_id # None
    /\ run[leaver].vs.channel_id # run[joiner].vs.channel_id
    /\ SetAt(prev.voice_state_channels, run[joiner].vs.channel_id) = {RunPair(leaver)}
    /\ Has(prev.voice_states, RunPair(leaver))
    /\ prev.voice_states[RunPair(leaver)].channel_id = run[joiner].vs.channel_id

\* C33: when one cache_voice_state call takes the last pair out of a
\* channel's connected set while another concurrently joins a different user
\* to that channel, then after both return the joining user is in the
\* channel's connected set and in the guild's.
C33_JoinSurvivesPrune ==
    \A leaver \in {1, 2}, joiner \in {1, 2} :
        LastOneLeft(leaver, joiner) =>
            /\ RunPair(joiner) \in SetAt(cache.voice_state_channels, run[joiner].vs.channel_id)
            /\ run[joiner].vs.user_id \in SetAt(cache.voice_state_guilds, run[joiner].vs.guild_id)

\* The key of the upsert in `last` is in the primary table / in the
\* membership set of the upsert's guild
KeyCached(c) ==
    CASE last.op = "cache_guild_channel" -> Has(c.channels_guild, last.args[2].id)
      [] last.op = "cache_role" -> Has(c.roles, last.args[2].id)
      [] last.op = "cache_stage_instance" -> Has(c.stage_instances, last.args[2].id)

KeyIndexed(c) ==
    CASE last.op = "cache_guild_channel" -> last.args[2].id \in SetAt(c.guild_channels, last.args[1])
      [] last.op = "cache_role" -> last.args[2].id \in SetAt(c.guild_roles, last.args[1])
      [] last.op = "cache_stage_instance" -> last.args[2].id \in SetAt(c.guild_stage_instances, last.args[1])

\* An upsert and a delete of its key, cached before under the upsert's
\* guild, ran at once and have both returned
UpsertDeleteReturned ==
    /\ last.op \in Deletable
    /\ run[1].pc = "done" /\ run[2].pc = "done"
    /\ KeyCached(prev) /\ KeyIndexed(prev)

\* C34: after a concurrent upsert and delete of one cached key have both
\* returned, the key is in the primary table and in the guild's membership
\* set, or in neither.
C34_UpsertDeleteCoherent == UpsertDeleteReturned => (KeyCached(cache) <=> KeyIndexed(cache))

\* Two concurrent cache_user calls for a user not cached before have returned
FirstSightings ==
    /\ last.op = "cache_user_twice"
    /\ run[1].pc = "done" /\ run[2].pc = "done"
    /\ ~Has(prev.users, last.args[1].id)

\* C35: after two concurrent cache_user calls with equal data for a user not
\* cached before have returned, the user's reference set holds both guilds.
C35_BothReferencesKept ==
    FirstSightings =>
        /\ Has(cache.users, last.args[1].id)
        /\ {last.args[2], last.args[3]} \subseteq cache.users[last.args[1].id].guilds

\* The emoji ids the emojis table records under a guild
OwnedEmojis(c, guild_id) == {k \in DOMAIN c.emojis : c.emojis[k].guild_id = guild_id}

\* Two concurrent cache_emojis calls for one guild have returned, on a cache
\* that held emojis of no other guild
RefreshesReturned ==
    /\ last.op = "cache_emojis_twice"
    /\ run[1].pc = "done" /\ run[2].pc = "done"
    /\ \A k \in DOMAIN prev.emojis : prev.emojis[k].guild_id = last.args[1]
    /\ \A g \in DOMAIN prev.guild_emojis : g = last.args[1]

\* C36: after two concurrent cache_emojis calls for one guild have returned,
\* the guild's emoji set is the key set of one of the two collections, and
\* the emojis table holds exactly those keys for the guild.
C36_RefreshesLinearizable ==
    RefreshesReturned =>
        \E i \in {2, 3} :
            /\ SetAt(cache.guild_emojis, last.args[1]) = Ids(last.args[i])
            /\ OwnedEmojis(cache, last.args[1]) = Ids(last.args[i])

\* C37: cache_emojis(G, incoming) removes from the emojis table no entry
\* recorded under another guild, and changes no other guild's emoji set.
C37_RefreshTouchesOwnGuild ==
    last.op = "cache_emojis" =>
        /\ \A k \in DOMAIN prev.emojis : prev.emojis[k].guild_id # last.args[1] => Has(cache.emojis, k)
        /\ \A g \in Guilds \ {last.args[1]} : Get(cache.guild_emojis, g) = Get(prev.guild_emojis, g)

\* C38: while no call is under way no guild id is both in the guilds table
\* and in unavailable_guilds, and after a concurrent cache_guild and
\* unavailable_guild for one guild have returned, its id is in exactly one.
C38_AvailableOrUnavailable ==
    /\ (\A p \in Procs : run[p].pc = "idle") => \A g \in Guilds : ~(Has(cache.guilds, g) /\ g \in cache.unavailable_guilds)
    /\ (last.op = "guild_race" /\ run[1].pc = "done" /\ run[2].pc = "done")
           => (Has(cache.guilds, last.args.id) <=> last.args.id \notin cache.unavailable_guilds)

\* C39: cache_voice_state without a channel id, for a pair that has no
\* cached voice state, leaves voice_states, voice_state_channels and
\* voice_state_guilds as they were.
C39_AbsentDisconnectNoOp ==
    (/\ last.op = "cache_voice_state"
     /\ last.args.guild_id # None
     /\ last.args.channel_id = None
     /\ ~Has(prev.voice_states, PairOf(last.args)))
        => /\ cache.voice_states = prev.voice_states
           /\ cache.voice_state_channels = prev.voice_state_channels
           /\ cache.voice_state_guilds = prev.voice_state_guilds

====
